---- MODULE Spec2Model ----
(***************************************************************************)
(* Model of the cuEVM tracer (tracer_t, kernel_tracers) and of the call    *)
(* message (message_t).                                                    *)
(*                                                                         *)
(* Memory is one heap of blocks.  A pointer is the index of its block in   *)
(* `heap`, NULL is 0.  A block records the memory space it lives in, how   *)
(* often it has been freed, its length in elements and the elements that   *)
(* have been written: `cells` holds the elements stored one by one, `fill` *)
(* a value stored to every element from index `fill.from` on (a reset      *)
(* loop).  An element in neither was never written and is indeterminate.   *)
(***************************************************************************)
EXTENDS Integers, Sequences, FiniteSets, TLC

\* ------------------------------------------------------------------ bounds
MaxPushes == 2        \* pushes explored after the warm-up of a scenario
MaxSteps == 3         \* other operations explored after the warm-up
MaxStaged == 1     \* entries an instance of a staged batch logs
MaxFrames == 2     \* changes of the live frame while a batch is logged
BatchCount == 2       \* instances of a staged batch
SizeBits == 16        \* width kept of the size_t fields of tracer_data_t
AddrBits == 3         \* width kept of the size_t arguments of get_data
Limbs == 2            \* limbs kept of an evm_word_t
LimbBits == 4         \* bits kept of a limb
MaxList == 2          \* entries of the data, gasLimit and value of a fixture

\* ------------------------------------------------------- program constants
PAGE_SIZE == 128
STACK_SIZE == 1024
NULL == 0
Indeterminate == 0 - 1    \* what a read of a never-written cell yields

\* ------------------------------------------------------------------ values
Words == {1, 2}
Bytes == {170, 187}
Garbage == {0, 91}    \* what freshly allocated device memory may hold

VARIABLES
    heap,            \* the blocks of host and device memory
    cpu_instances,   \* tracer_data_t[count] on the host
    frame,           \* the live stack, memory and touch state of the instance
    log,             \* history: the arguments of every push, by value
    op,              \* history: the operation that produced this state
    warmup,          \* scenario: leading pushes made with an idle frame
    steps,           \* history: operations other than push made so far
    wild,            \* history: indices stored to outside their array
    gpu_instances,   \* tracer_data_t[count] on the device, or NULL
    returned,        \* tracer_data_t[count] staged back to the host, or NULL
    transaction,     \* the "transaction" object of the fixture, or NULL
    messages,        \* count and cpu_messages of get_messages, or NULL
    content,         \* _content of the message_t under get_data, or NULL
    slice            \* the last get_data call and its result, or NULL

vars == <<heap, cpu_instances, frame, log, op, warmup, steps, wild,
          gpu_instances, returned, transaction, messages, content, slice>>

message_vars == <<transaction, messages, content, slice>>

\* -------------------------------------------------------------------- heap
NoCells == [k \in {} |-> 0]

NoFill(len) == [from |-> len, v |-> 0]

FilledBlock(space, len, cells, fill) ==
    [space |-> space, frees |-> 0, len |-> len, cells |-> cells,
     fill |-> fill]

Block(space, len, cells) == FilledBlock(space, len, cells, NoFill(len))

IsLive(h, p) == p # NULL /\ p <= Len(h) /\ h[p].frees = 0

\* free / delete[] / cudaFree of p: the contents are gone, the count stays
Free(h, p) ==
    IF p = NULL \/ p > Len(h) THEN h
    ELSE [h EXCEPT ![p].frees = @ + 1, ![p].cells = NoCells,
                   ![p].fill = NoFill(h[p].len)]

\* the statements of the source run in sequence: v is computed, then the
\* rest K of the function runs on it
Then(v, K(_)) == CHOOSE r \in {K(x) : x \in {v}} : TRUE

RECURSIVE FreeAll(_, _)
FreeAll(h, ps) ==
    IF ps = << >> THEN h
    ELSE Then(Free(h, Head(ps)), LAMBDA h1 : FreeAll(h1, Tail(ps)))

HasCell(h, p, k) ==
    /\ IsLive(h, p)
    /\ \/ k \in DOMAIN h[p].cells
       \/ (k >= h[p].fill.from /\ k < h[p].len)

\* the value held at index k of the array p (`dflt` if never written)
Cell(h, p, k, dflt) ==
    IF ~HasCell(h, p, k) THEN dflt
    ELSE IF k \in DOMAIN h[p].cells THEN h[p].cells[k]
    ELSE h[p].fill.v

\* memcpy(dst, src, n elements): the written elements of src in [0, n)
CopyCells(h, src, n) ==
    IF ~IsLive(h, src) THEN NoCells
    ELSE LET b == h[src]
             m == IF n < b.len THEN n ELSE b.len
         IN  IF b.fill.from >= m
             THEN IF n >= b.len THEN b.cells
                  ELSE [k \in {j \in DOMAIN b.cells : j < m} |-> b.cells[k]]
             ELSE [k \in {j \in DOMAIN b.cells : j < m}
                            \cup (b.fill.from .. m - 1) |->
                     IF k \in DOMAIN b.cells THEN b.cells[k] ELSE b.fill.v]

\* a store to element k of the array p; a store outside every live array
\* changes no array of the model
InBounds(h, p, k) == IsLive(h, p) /\ k >= 0 /\ k < h[p].len

WriteCell(h, p, k, v) ==
    IF InBounds(h, p, k)
    THEN [h EXCEPT ![p].cells =
            IF k \in DOMAIN @ THEN [@ EXCEPT ![k] = v] ELSE (k :> v) @@ @]
    ELSE h

\* ----------------------------------------------------------- tracer_data_t
ArrayFields ==
    <<"addresses", "pcs", "opcodes", "stacks", "memories", "touch_states",
      "gas_useds", "gas_limits", "gas_refunds", "error_codes">>

SnapshotFields == {"stacks", "memories", "touch_states"}

FieldIndex(f) == CHOOSE j \in 1..Len(ArrayFields) : ArrayFields[j] = f

\* the ten array pointers of a descriptor
ArrayPointers(c) == [j \in 1..Len(ArrayFields) |-> c[ArrayFields[j]]]

\* memset(cpu_instances, 0, ...) in get_cpu_instances
EmptyTracer ==
    [size |-> 0, capacity |-> 0,
     addresses |-> NULL, pcs |-> NULL, opcodes |-> NULL, stacks |-> NULL,
     memories |-> NULL, touch_states |-> NULL, gas_useds |-> NULL,
     gas_limits |-> NULL, gas_refunds |-> NULL, error_codes |-> NULL]

get_cpu_instances(n) == [i \in 1..n |-> EmptyTracer]

EmptyStack == [stack_base |-> NULL, stack_offset |-> 0]
EmptyMemory == [size |-> 0, allocated_size |-> 0, data |-> NULL]
EmptyTouch == [no_accounts |-> 0, accounts |-> NULL, touch |-> NULL]

EmptySnapshot(f) ==
    CASE f = "stacks" -> EmptyStack
      [] f = "memories" -> EmptyMemory
      [] f = "touch_states" -> EmptyTouch

\* ------------------------------------------------------------------- grow
\* grow without the loop of lines 194-203: the entries past the copy are
\* what new[] left there
grow_no_reset(h, c, space) ==
    LET newcap == c.capacity + PAGE_SIZE
        base == Len(h)
        NewCells(f) == IF c.capacity > 0
                       THEN CopyCells(h, c[f], c.capacity)
                       ELSE NoCells
        h1 == h \o [j \in 1..Len(ArrayFields) |->
                      FilledBlock(space, newcap, NewCells(ArrayFields[j]),
                                  NoFill(newcap))]
        h2 == IF c.capacity > 0
              THEN FreeAll(h1, [j \in 1..Len(ArrayFields) |-> c[ArrayFields[j]]])
              ELSE h1
    IN  [h |-> h2,
         c |-> [f \in DOMAIN c |->
                  CASE f = "size" -> c.size
                    [] f = "capacity" -> newcap
                    [] OTHER -> base + FieldIndex(f)]]

\* grow that copies one element too few
grow_short_copy(h, c, space) ==
    LET newcap == c.capacity + PAGE_SIZE
        base == Len(h)
        NewCells(f) ==
            LET copied == IF c.capacity > 0
                          THEN CopyCells(h, c[f], c.capacity - 1)
                          ELSE NoCells
            IN  IF f \in SnapshotFields
                THEN [k \in {j \in DOMAIN copied : j < c.size} |-> copied[k]]
                ELSE copied
        NewFill(f) ==
            IF f \in SnapshotFields
            THEN [from |-> c.size, v |-> EmptySnapshot(f)]
            ELSE NoFill(newcap)
        h1 == h \o [j \in 1..Len(ArrayFields) |->
                      FilledBlock(space, newcap, NewCells(ArrayFields[j]),
                                  NewFill(ArrayFields[j]))]
        h2 == IF c.capacity > 0
              THEN FreeAll(h1, [j \in 1..Len(ArrayFields) |-> c[ArrayFields[j]]])
              ELSE h1
    IN  [h |-> h2,
         c |-> [f \in DOMAIN c |->
                  CASE f = "size" -> c.size
                    [] f = "capacity" -> newcap
                    [] OTHER -> base + FieldIndex(f)]]

\* tracer_t::grow on the tracer c, run in memory space `space`
grow(h, c, space) ==
    LET newcap == c.capacity + PAGE_SIZE
        base == Len(h)
        NewCells(f) ==
            LET copied == IF c.capacity > 0
                          THEN CopyCells(h, c[f], c.capacity)
                          ELSE NoCells
            IN  IF f \in SnapshotFields
                THEN [k \in {j \in DOMAIN copied : j < c.size} |-> copied[k]]
                ELSE copied
        \* the loop over [size, capacity) that empties the snapshots
        NewFill(f) ==
            IF f \in SnapshotFields
            THEN [from |-> c.size, v |-> EmptySnapshot(f)]
            ELSE NoFill(newcap)
        h1 == h \o [j \in 1..Len(ArrayFields) |->
                      FilledBlock(space, newcap, NewCells(ArrayFields[j]),
                                  NewFill(ArrayFields[j]))]
        h2 == IF c.capacity > 0
              THEN FreeAll(h1, [j \in 1..Len(ArrayFields) |-> c[ArrayFields[j]]])
              ELSE h1
    IN  [h |-> h2,
         c |-> [f \in DOMAIN c |->
                  CASE f = "size" -> c.size
                    [] f = "capacity" -> newcap
                    [] OTHER -> base + FieldIndex(f)]]

\* ------------------------------------------- snapshots of the live frame
\* stack_t::to_stack_data_t(dst): dst becomes a copy by value of the live
\* stack; the buffer dst held before is released.
to_stack_data_t(h, st, dst, space) ==
    LET h1 == Free(h, dst.stack_base)
    IN  IF st.stack_offset = 0
        THEN [h |-> h1, v |-> EmptyStack]
        ELSE [h |-> Append(h1, Block(space, st.stack_offset,
                              CopyCells(h, st.stack_base, st.stack_offset))),
              v |-> [stack_base |-> Len(h1) + 1,
                     stack_offset |-> st.stack_offset]]

\* memory_t::to_memory_data_t(dst)
to_memory_data_t(h, m, dst, space) ==
    LET h1 == Free(h, dst.data)
    IN  IF m.size = 0
        THEN [h |-> h1, v |-> EmptyMemory]
        ELSE [h |-> Append(h1, Block(space, m.size,
                              CopyCells(h, m.data, m.size))),
              v |-> [size |-> m.size, allocated_size |-> m.size,
                     data |-> Len(h1) + 1]]

\* touch_state_t::to_touch_state_data_t(dst)
to_touch_state_data_t(h, t, dst, space) ==
    LET h1 == Free(Free(h, dst.accounts), dst.touch)
    IN  IF t.no_accounts = 0
        THEN [h |-> h1, v |-> EmptyTouch]
        ELSE [h |-> h1 \o
                    <<Block(space, t.no_accounts,
                            CopyCells(h, t.accounts, t.no_accounts)),
                      Block(space, t.no_accounts,
                            CopyCells(h, t.touch, t.no_accounts))>>,
              v |-> [no_accounts |-> t.no_accounts,
                     accounts |-> Len(h1) + 1, touch |-> Len(h1) + 2]]

\* ------------------------------------------------------------------- push
\* the stores of push at index size, after the capacity check left g
push_stores(g, fr, a, space) ==
    LET n == g.c.size
        h1 == WriteCell(g.h, g.c.addresses, n, a.address)
        h2 == WriteCell(h1, g.c.pcs, n, a.pc)
        h3 == WriteCell(h2, g.c.opcodes, n, a.opcode)
        h4 == WriteCell(h3, g.c.gas_useds, n, a.gas_used)
        h5 == WriteCell(h4, g.c.gas_limits, n, a.gas_limit)
        h6 == WriteCell(h5, g.c.gas_refunds, n, a.gas_refund)
        h7 == WriteCell(h6, g.c.error_codes, n, a.error_code)
        s == to_stack_data_t(h7, fr.stack,
                             Cell(h7, g.c.stacks, n, EmptyStack), space)
        h8 == WriteCell(s.h, g.c.stacks, n, s.v)
        m == to_memory_data_t(h8, fr.memory,
                              Cell(h8, g.c.memories, n, EmptyMemory), space)
        h9 == WriteCell(m.h, g.c.memories, n, m.v)
        t == to_touch_state_data_t(h9, fr.touch_state,
                              Cell(h9, g.c.touch_states, n, EmptyTouch), space)
        h10 == WriteCell(t.h, g.c.touch_states, n, t.v)
    IN  [h |-> h10, c |-> [g.c EXCEPT !.size = n + 1]]

\* push that stores the descriptor of the live stack instead of a copy
push_shallow(h, c, fr, a, space) ==
    LET g == IF c.size = c.capacity THEN grow(h, c, space)
             ELSE [h |-> h, c |-> c]
        r == push_stores(g, fr, a, space)
    IN  [h |-> WriteCell(r.h, g.c.stacks, g.c.size, fr.stack), c |-> r.c]

\* push that grows one entry before the arrays are full
push_early_grow(h, c, fr, a, space) ==
    push_stores(IF c.size + 1 >= c.capacity THEN grow(h, c, space)
                ELSE [h |-> h, c |-> c], fr, a, space)

\* push without the test of lines 232-235
push_no_grow(h, c, fr, a, space) ==
    push_stores([h |-> h, c |-> c], fr, a, space)

\* push that stores at the index after the increment of size
push_after(h, c, fr, a, space) ==
    LET g == IF c.size = c.capacity THEN grow(h, c, space)
             ELSE [h |-> h, c |-> c]
        r == push_stores([h |-> g.h, c |-> [g.c EXCEPT !.size = @ + 1]],
                         fr, a, space)
    IN  [h |-> r.h, c |-> [r.c EXCEPT !.size = g.c.size + 1]]

\* tracer_t::push(address, pc, opcode, stack, memory, touch_state,
\*                gas_used, gas_limit, gas_refund, error_code)
push(h, c, fr, a, space) ==
    push_stores(IF c.size = c.capacity THEN grow(h, c, space)
                ELSE [h |-> h, c |-> c], fr, a, space)

\* ------------------------------------------------------ modify_last_stack
\* _content->size - 1, computed in size_t
last_index(c) == (c.size - 1) % (2 ^ SizeBits)

\* modify_last_stack that patches the first entry instead of the last
modify_first_stack(h, c, fr, space) ==
    LET s == to_stack_data_t(h, fr.stack,
                             Cell(h, c.stacks, 0, EmptyStack), space)
    IN  [h |-> WriteCell(s.h, c.stacks, 0, s.v), c |-> c]

\* tracer_t::modify_last_stack(stack); the index is size - 1 in size_t
modify_last_stack(h, c, fr, space) ==
    LET n == last_index(c)
        s == to_stack_data_t(h, fr.stack,
                             Cell(h, c.stacks, n, EmptyStack), space)
    IN  [h |-> WriteCell(s.h, c.stacks, n, s.v), c |-> c]

\* ---------------------------------------------------------------- staging
\* cudaMalloc of n elements: device memory whose contents are whatever the
\* allocator left there (g in every element)
cudaMalloc(h, n, g) == Append(h, Block("device", n, [k \in 0..(n - 1) |-> g]))

\* cudaMemcpy / memcpy of n elements from src to the start of dst
Memcpy(h, dst, src, n) ==
    IF ~IsLive(h, dst) THEN h
    ELSE [h EXCEPT ![dst].cells = CopyCells(h, src, n) @@ @]

\* the pointer fields of a snapshot and the number of elements they hold
PayloadPointers(f) ==
    CASE f = "stacks" -> <<"stack_base">>
      [] f = "memories" -> <<"data">>
      [] f = "touch_states" -> <<"accounts", "touch">>

PayloadLen(f, d) ==
    CASE f = "stacks" -> d.stack_offset
      [] f = "memories" -> d.size
      [] f = "touch_states" -> d.no_accounts

\* one pointer field f of the snapshot d copied into `space`; `release`
\* frees the source buffer after the copy
StageBuffer(h, d, f, len, space, release) ==
    IF len > 0 /\ d[f] # NULL
    THEN Then(Append(h, Block(space, len, CopyCells(h, d[f], len))),
              LAMBDA h1 :
                  [h |-> IF release THEN Free(h1, d[f]) ELSE h1,
                   d |-> [d EXCEPT ![f] = Len(h) + 1]])
    ELSE [h |-> h, d |-> [d EXCEPT ![f] = NULL]]

\* the buffers of the snapshot d copied into `space`
RECURSIVE StagePayload(_, _, _, _, _, _)
StagePayload(h, d, ptrs, len, space, release) ==
    IF ptrs = << >> THEN [h |-> h, d |-> d]
    ELSE Then(StageBuffer(h, d, Head(ptrs), len, space, release),
              LAMBDA r :
                  StagePayload(r.h, r.d, Tail(ptrs), len, space, release))

RECURSIVE StageElements(_, _, _, _, _, _, _, _)
StageElements(h, f, arr, n, space, release, k, acc) ==
    IF k >= n THEN [h |-> h, cells |-> acc]
    ELSE Then(Cell(h, arr, k, EmptySnapshot(f)),
              LAMBDA d :
         Then(StagePayload(h, d, PayloadPointers(f), PayloadLen(f, d),
                           space, release),
              LAMBDA r :
         Then((k :> r.d) @@ acc,
              LAMBDA cells :
                  StageElements(r.h, f, arr, n, space, release, k + 1,
                                cells))))

\* stack_t, memory_t, touch_state_t ::get_gpu_instances_from_cpu_instances:
\* the n snapshots of the host array arr staged into a new device array
snapshots_to_gpu(h, f, arr, n) ==
    Then(StageElements(h, f, arr, n, "device", FALSE, 0, NoCells),
         LAMBDA r :
             [h |-> Append(r.h, Block("device", n, r.cells)),
              p |-> Len(r.h) + 1])

\* stack_t, memory_t, touch_state_t ::get_cpu_instances_from_gpu_instances:
\* the n snapshots of the device array arr re-homed into a new host array;
\* the device side is freed
snapshots_to_cpu(h, f, arr, n) ==
    Then(StageElements(h, f, arr, n, "host", TRUE, 0, NoCells),
         LAMBDA r :
    Then(Append(r.h, Block("host", n, r.cells)),
         LAMBDA h1 : [h |-> Free(h1, arr), p |-> Len(r.h) + 1]))

\* stack_t, memory_t, touch_state_t ::get_cpu_instances(n): n empty snapshots
snapshots_get_cpu_instances(h, f, n) ==
    Append(h, Block("host", n, [k \in 0..(n - 1) |-> EmptySnapshot(f)]))

ZeroDescriptor == EmptyTracer

\* the descriptor a staging loop leaves capacity untouched in
staged_capacity_kept(c) == c

\* tmp_cpu_instances[idx].capacity = size (lines 461, 615, 718)
staged_capacity(c) == [c EXCEPT !.capacity = c.size]

\* a staging that hands the host array itself to the device descriptor
FieldToGpu_shared(h, src, f, g) == [h |-> h, p |-> src[f]]

\* array f of an instance with size > 0 staged to the device (lines 462-521)
FieldToGpu(h, src, f, g) ==
    IF f \in SnapshotFields
    THEN snapshots_to_gpu(h, f, src[f], src.size)
    ELSE Then(cudaMalloc(h, src.size, g),
              LAMBDA h1 :
                  \* the opcodes are allocated and never copied
                  [h |-> IF f = "opcodes" THEN h1
                         ELSE Memcpy(h1, Len(h) + 1, src[f], src.size),
                   p |-> Len(h) + 1])

\* the arrays of one instance with size > 0 staged to the device, field by
\* field in the order of the code (lines 461-521)
RECURSIVE InstanceToGpu(_, _, _, _, _)
InstanceToGpu(h, src, dst, j, g) ==
    IF j > Len(ArrayFields) THEN [h |-> h, c |-> dst]
    ELSE Then(FieldToGpu(h, src, ArrayFields[j], g),
              LAMBDA r :
         Then([dst EXCEPT ![ArrayFields[j]] = r.p],
              LAMBDA dst1 : InstanceToGpu(r.h, src, dst1, j + 1, g)))

\* the loop without the branch of lines 523-537: the descriptor of an empty
\* instance is staged as the memcpy of line 453 left it
RECURSIVE ToGpuLoop_copied(_, _, _, _, _)
ToGpuLoop_copied(h, insts, idx, acc, g) ==
    IF idx > Len(insts) THEN [h |-> h, tmp |-> acc]
    ELSE IF insts[idx].size > 0
         THEN Then(InstanceToGpu(h, insts[idx],
                       staged_capacity(insts[idx]),
                       1, g),
                   LAMBDA r :
              Then(Append(acc, r.c),
                   LAMBDA acc1 :
                       ToGpuLoop_copied(r.h, insts, idx + 1, acc1, g)))
         ELSE Then(Append(acc, insts[idx]),
                   LAMBDA acc1 :
                       ToGpuLoop_copied(h, insts, idx + 1, acc1, g))

RECURSIVE ToGpuLoop(_, _, _, _, _)
ToGpuLoop(h, insts, idx, acc, g) ==
    IF idx > Len(insts) THEN [h |-> h, tmp |-> acc]
    ELSE IF insts[idx].size > 0
         THEN Then(InstanceToGpu(h, insts[idx],
                       staged_capacity(insts[idx]),
                       1, g),
                   LAMBDA r :
              Then(Append(acc, r.c),
                   LAMBDA acc1 : ToGpuLoop(r.h, insts, idx + 1, acc1, g)))
         ELSE Then(Append(acc, ZeroDescriptor),
                   LAMBDA acc1 : ToGpuLoop(h, insts, idx + 1, acc1, g))

Descriptors(seq) == [k \in 0..(Len(seq) - 1) |-> seq[k + 1]]

\* tracer_t::get_gpu_instances_from_cpu_instances(cpu_instances, count)
get_gpu_instances_from_cpu_instances(h, insts, g) ==
    LET count == Len(insts)
        gpu == Len(h) + 1
        tmp == Len(h) + 2
    IN  Then(cudaMalloc(h, count, g),
             LAMBDA h1 :
        Then(Append(h1, Block("host", count, Descriptors(insts))),
             LAMBDA h2 :
        Then(ToGpuLoop(h2, insts, 1, << >>, g),
             LAMBDA r :
        Then([r.h EXCEPT ![tmp].cells = Descriptors(r.tmp)],
             LAMBDA h3 :
                 [h |-> Memcpy(h3, gpu, tmp, count), p |-> gpu]))))

\* ------------------------------------------------------------ kernel_tracers
\* the element-wise copies of thread `instance` (lines 827-866)
RECURSIVE KernelCopy(_, _, _, _)
KernelCopy(h, dst, src, j) ==
    IF j > Len(ArrayFields) THEN h
    ELSE Then(Memcpy(h, dst[ArrayFields[j]], src[ArrayFields[j]], src.size),
              LAMBDA h1 : KernelCopy(h1, dst, src, j + 1))

\* delete[] p in device code.  It releases an array of the device heap (a
\* new[] of device code).  An array of cudaMalloc does not belong to that
\* heap: the call is undefined, and in the runs that go on it has left the
\* array allocated (the runs in which it faults are KernelFaults)
device_delete(h, p) ==
    IF IsLive(h, p) /\ h[p].space = "device" THEN h ELSE Free(h, p)

RECURSIVE DeleteAll(_, _)
DeleteAll(h, ps) ==
    IF ps = << >> THEN h
    ELSE Then(device_delete(h, Head(ps)),
              LAMBDA h1 : DeleteAll(h1, Tail(ps)))

\* thread `instance` of kernel_tracers(dst_instances, src_instances, count)
kernel_thread(h, dst_instances, src_instances, instance) ==
    Then(Cell(h, src_instances, instance, ZeroDescriptor),
         LAMBDA src :
    Then(Cell(h, dst_instances, instance, ZeroDescriptor),
         LAMBDA dst :
             IF src.size > 0
             THEN Then(KernelCopy(h, dst, src, 1),
                       LAMBDA h1 :
                  Then(DeleteAll(h1, ArrayPointers(src)),
                       LAMBDA h2 :
                           WriteCell(h2, src_instances, instance,
                                     ZeroDescriptor)))
             ELSE h))

RECURSIVE kernel_tracers(_, _, _, _, _)
kernel_tracers(h, dst_instances, src_instances, count, instance) ==
    IF instance >= count THEN h
    ELSE Then(kernel_thread(h, dst_instances, src_instances, instance),
              LAMBDA h1 :
                  kernel_tracers(h1, dst_instances, src_instances, count,
                                 instance + 1))

\* ------------------------------------------------------- device to host
\* the device buffer that receives array f of an instance with n > 0
\* entries (lines 615-664)
StagingBuffer(h, f, n, g) ==
    IF f \in SnapshotFields
    THEN Then(snapshots_get_cpu_instances(h, f, n),
              LAMBDA h1 :
         Then(snapshots_to_gpu(h1, f, Len(h) + 1, n),
              LAMBDA r : [h |-> Free(r.h, Len(h) + 1), p |-> r.p]))
    ELSE [h |-> cudaMalloc(h, n, g), p |-> Len(h) + 1]

RECURSIVE StagingBuffers(_, _, _, _)
StagingBuffers(h, dst, j, g) ==
    IF j > Len(ArrayFields) THEN [h |-> h, c |-> dst]
    ELSE Then(StagingBuffer(h, ArrayFields[j], dst.size, g),
              LAMBDA r :
         Then([dst EXCEPT ![ArrayFields[j]] = r.p],
              LAMBDA dst1 : StagingBuffers(r.h, dst1, j + 1, g)))

RECURSIVE StagingLoop(_, _, _, _, _)
StagingLoop(h, insts, idx, acc, g) ==
    IF idx > Len(insts) THEN [h |-> h, tmp |-> acc]
    ELSE IF insts[idx].size > 0
         THEN Then(StagingBuffers(h,
                       staged_capacity(insts[idx]),
                       1, g),
                   LAMBDA r :
              Then(Append(acc, r.c),
                   LAMBDA acc1 : StagingLoop(r.h, insts, idx + 1, acc1, g)))
         ELSE Then(Append(acc, ZeroDescriptor),
                   LAMBDA acc1 : StagingLoop(h, insts, idx + 1, acc1, g))

\* a copy-out that returns the device array itself
FieldToCpu_shared(h, src, f) == [h |-> h, p |-> src[f]]

\* array f of an instance with size > 0 copied out to a new host array, the
\* device array freed after its copy (lines 718-777)
FieldToCpu(h, src, f) ==
    IF f \in SnapshotFields
    THEN snapshots_to_cpu(h, f, src[f], src.size)
    ELSE Then(Append(h, Block("host", src.size, NoCells)),
              LAMBDA h1 :
         Then(Memcpy(h1, Len(h) + 1, src[f], src.size),
              LAMBDA h2 : [h |-> Free(h2, src[f]), p |-> Len(h) + 1]))

RECURSIVE InstanceToCpu(_, _, _, _)
InstanceToCpu(h, src, dst, j) ==
    IF j > Len(ArrayFields) THEN [h |-> h, c |-> dst]
    ELSE Then(FieldToCpu(h, src, ArrayFields[j]),
              LAMBDA r :
         Then([dst EXCEPT ![ArrayFields[j]] = r.p],
              LAMBDA dst1 : InstanceToCpu(r.h, src, dst1, j + 1)))

RECURSIVE ToCpuLoop(_, _, _, _)
ToCpuLoop(h, insts, idx, acc) ==
    IF idx > Len(insts) THEN [h |-> h, tmp |-> acc]
    ELSE IF insts[idx].size > 0
         THEN Then(InstanceToCpu(h, insts[idx],
                       staged_capacity(insts[idx]), 1),
                   LAMBDA r :
              Then(Append(acc, r.c),
                   LAMBDA acc1 : ToCpuLoop(r.h, insts, idx + 1, acc1)))
         ELSE Then(Append(acc, ZeroDescriptor),
                   LAMBDA acc1 : ToCpuLoop(h, insts, idx + 1, acc1))

\* the descriptors held by the outer array p
ReadDescriptors(h, p, count) ==
    [i \in 1..count |-> Cell(h, p, i - 1, ZeroDescriptor)]

\* lines 596-681: the descriptors, their shadow and the staging buffers
StageDescriptors(h, gpu, count, g) ==
    Then(ReadDescriptors(h, gpu, count),
         LAMBDA shadow :
    Then(h \o <<Block("host", count, Descriptors(shadow)),
                Block("host", count, Descriptors(shadow))>>,
         LAMBDA h1 :
    Then(StagingLoop(h1, shadow, 1, << >>, g),
         LAMBDA a : [a.h EXCEPT ![Len(h) + 2].cells = Descriptors(a.tmp)])))

\* lines 714-802: the copy out of the arrays the kernel filled
CopyOut(h, cpu, tmp_gpu, count) ==
    Then(ReadDescriptors(h, cpu, count),
         LAMBDA filled :
    Then(Append(h, Block("host", count, Descriptors(filled))),
         LAMBDA h8 :
    Then(ToCpuLoop(h8, filled, 1, << >>),
         LAMBDA b :
    Then([b.h EXCEPT ![Len(h) + 1].cells = Descriptors(b.tmp)],
         LAMBDA h9 :
    Then(Memcpy(h9, cpu, Len(h) + 1, count),
         LAMBDA h10 :
    Then(Free(h10, Len(h) + 1),
         LAMBDA h11 : Free(h11, tmp_gpu)))))))

\* lines 596-694: everything before the launch; the temporary outer array
\* tmp_gpu_instances is the last block of the result
StageForKernel(h, gpu, count, g) ==
    Then(StageDescriptors(h, gpu, count, g),
         LAMBDA h2 :
    Then(cudaMalloc(h2, count, g),
         LAMBDA h3a :
    Then(Memcpy(h3a, Len(h2) + 1, Len(h) + 2, count),
         LAMBDA h3 : Free(h3, Len(h) + 2))))

\* tracer_t::get_cpu_instances_from_gpu_instances(gpu_instances, count)
get_cpu_instances_from_gpu_instances(h, gpu, count, g) ==
    LET cpu == Len(h) + 1
    IN  Then(StageForKernel(h, gpu, count, g),
             LAMBDA h4 :
        \* lines 697-701: the kernel, then the source outer array is freed
        Then(kernel_tracers(h4, Len(h4), gpu, count, 0),
             LAMBDA h5 :
        Then(Free(h5, gpu),
             LAMBDA h6 :
        \* lines 704-713
        Then(Memcpy(h6, cpu, Len(h4), count),
             LAMBDA h7 :
                 [h |-> CopyOut(h7, cpu, Len(h4), count),
                  p |-> cpu]))))

\* ------------------------------------------------------- values of entries
StackValue(h, s) ==
    [k \in 1..s.stack_offset |-> Cell(h, s.stack_base, k - 1, Indeterminate)]

MemoryValue(h, m) ==
    [k \in 1..m.size |-> Cell(h, m.data, k - 1, Indeterminate)]

TouchValue(h, t) ==
    [k \in 1..t.no_accounts |->
        <<Cell(h, t.accounts, k - 1, Indeterminate),
          Cell(h, t.touch, k - 1, Indeterminate)>>]

FrameValue(h, fr) ==
    [stack |-> StackValue(h, fr.stack),
     memory |-> MemoryValue(h, fr.memory),
     touch_state |-> TouchValue(h, fr.touch_state)]

\* entry k of the tracer c, every snapshot read through its pointers
Entry(h, c, k) ==
    [address |-> Cell(h, c.addresses, k, Indeterminate),
     pc |-> Cell(h, c.pcs, k, Indeterminate),
     opcode |-> Cell(h, c.opcodes, k, Indeterminate),
     stack |-> IF HasCell(h, c.stacks, k)
               THEN StackValue(h, Cell(h, c.stacks, k, EmptyStack))
               ELSE <<Indeterminate>>,
     memory |-> IF HasCell(h, c.memories, k)
                THEN MemoryValue(h, Cell(h, c.memories, k, EmptyMemory))
                ELSE <<Indeterminate>>,
     touch_state |-> IF HasCell(h, c.touch_states, k)
                     THEN TouchValue(h, Cell(h, c.touch_states, k, EmptyTouch))
                     ELSE <<Indeterminate>>,
     gas_used |-> Cell(h, c.gas_useds, k, Indeterminate),
     gas_limit |-> Cell(h, c.gas_limits, k, Indeterminate),
     gas_refund |-> Cell(h, c.gas_refunds, k, Indeterminate),
     error_code |-> Cell(h, c.error_codes, k, Indeterminate)]

Entries(h, c) == [k \in 1..c.size |-> Entry(h, c, k - 1)]

\* what a push of the arguments a with the live frame fr has to log
Logged(h, fr, a) ==
    [address |-> a.address, pc |-> a.pc, opcode |-> a.opcode,
     stack |-> StackValue(h, fr.stack),
     memory |-> MemoryValue(h, fr.memory),
     touch_state |-> TouchValue(h, fr.touch_state),
     gas_used |-> a.gas_used, gas_limit |-> a.gas_limit,
     gas_refund |-> a.gas_refund, error_code |-> a.error_code]

\* ------------------------------------------------------------ the instance
\* scalar arguments of a push: an idle step and a faulting step
IdleArgs ==
    [address |-> 10, pc |-> 0, opcode |-> 91, gas_used |-> 1,
     gas_limit |-> 100, gas_refund |-> 0, error_code |-> 0]

FaultArgs ==
    [address |-> 11, pc |-> 7, opcode |-> 1, gas_used |-> 50,
     gas_limit |-> 50, gas_refund |-> 3, error_code |-> 2]

PushArgs == {IdleArgs, FaultArgs}

\* the live frame of the instance: an empty stack, memory and touch state,
\* each over its own buffer
InitHeap ==
    <<Block("host", STACK_SIZE, NoCells), Block("host", 1, NoCells),
      Block("host", 1, NoCells), Block("host", 1, NoCells)>>

InitFrame ==
    [stack |-> [stack_base |-> 1, stack_offset |-> 0],
     memory |-> [size |-> 0, allocated_size |-> 1, data |-> 2],
     touch_state |-> [no_accounts |-> 0, accounts |-> 3, touch |-> 4]]

InitWith(w, count) ==
    /\ heap = InitHeap
    /\ cpu_instances = get_cpu_instances(count)
    /\ frame = InitFrame
    /\ log = [i \in 1..count |-> << >>]
    /\ gpu_instances = NULL
    /\ returned = NULL
    /\ op = [name |-> "init"]
    /\ warmup = w
    /\ steps = 0
    /\ wild = {}
    /\ transaction = NULL
    /\ messages = NULL
    /\ content = NULL
    /\ slice = NULL

Init == InitWith(0, 1)

Warm == cpu_instances[1].size >= warmup

OnHost ==
    /\ gpu_instances = NULL
    /\ returned = NULL
    /\ op.name \notin {"to_gpu_failed", "push_failed", "to_gpu_loop",
                      "from_gpu_failed", "free_cpu_instances",
                      "push_threads"}

\* the opcode loop of instance i retires an instruction and logs it; the
\* instances of a batch are run in batch order
PushEntry(i) ==
    /\ OnHost
    /\ cpu_instances[i].size < warmup + MaxPushes
    /\ \A j \in (i + 1)..Len(cpu_instances) : cpu_instances[j].size = 0
    /\ \E a \in IF Warm THEN PushArgs ELSE {IdleArgs} :
         LET r == push(heap, cpu_instances[i], frame, a, "host")
         IN  /\ heap' = r.h
             /\ cpu_instances' = [cpu_instances EXCEPT ![i] = r.c]
             /\ log' = [log EXCEPT ![i] = Append(@, Logged(heap, frame, a))]
             /\ op' = [name |-> "push"]
    /\ UNCHANGED <<frame, warmup, steps, wild, gpu_instances, returned>>
    /\ UNCHANGED message_vars

\* one more operation other than push
Step(name) ==
    /\ Warm
    /\ OnHost
    /\ steps < MaxSteps
    /\ steps' = steps + 1
    /\ op' = [name |-> name]
    /\ UNCHANGED <<warmup, gpu_instances, returned>>
    /\ UNCHANGED message_vars

GrowTrace ==
    /\ Step("grow")
    /\ LET r == grow(heap, cpu_instances[1], "host")
       IN  /\ heap' = r.h
           /\ cpu_instances' = [cpu_instances EXCEPT ![1] = r.c]
    /\ UNCHANGED <<frame, log, wild>>

ModifyLast ==
    /\ Step("modify_last_stack")
    /\ LET c == cpu_instances[1]
           r == modify_last_stack(heap, c, frame, "host")
           n == last_index(c)
       IN  /\ heap' = r.h
           /\ cpu_instances' = [cpu_instances EXCEPT ![1] = r.c]
           /\ wild' = IF InBounds(heap, c.stacks, n) THEN wild
                      ELSE wild \cup {n}
    /\ UNCHANGED <<frame, log>>

\* --------------------------------------- mutations of the live frame
FrameStep(h, fr) ==
    /\ Step("frame")
    /\ heap' = h
    /\ frame' = fr
    /\ UNCHANGED <<cpu_instances, log, wild>>

StackPushWord ==
    /\ frame.stack.stack_offset < STACK_SIZE
    /\ \E w \in Words :
         FrameStep(WriteCell(heap, frame.stack.stack_base,
                             frame.stack.stack_offset, w),
                   [frame EXCEPT !.stack.stack_offset = @ + 1])

StackPop ==
    /\ frame.stack.stack_offset > 0
    /\ FrameStep(heap, [frame EXCEPT !.stack.stack_offset = @ - 1])

MemoryStore ==
    \E b \in Bytes :
        FrameStep(WriteCell(heap, frame.memory.data, 0, b),
                  [frame EXCEPT !.memory.size = 1])

TouchAccount ==
    \E v \in Words :
        FrameStep(WriteCell(WriteCell(heap, frame.touch_state.accounts, 0, v),
                            frame.touch_state.touch, 0, v),
                  [frame EXCEPT !.touch_state.no_accounts = 1])

Next ==
    \/ PushEntry(1)
    \/ GrowTrace
    \/ ModifyLast
    \/ StackPushWord
    \/ StackPop
    \/ MemoryStore
    \/ TouchAccount

Spec == Init /\ [][Next]_vars

\* the same instance after PAGE_SIZE - 1 idle steps: the next pushes cross
\* the page boundary
\* tracer_t::free_cpu_instances(cpu_instances, count), lines 404-434: the
\* arrays of every instance with capacity > 0 are released and its
\* descriptor zeroed.  The free_cpu_instances of the snapshot classes are
\* taken to release the array, as the delete[] they stand for
RECURSIVE free_cpu_instances(_, _, _)
free_cpu_instances(h, insts, idx) ==
    IF idx > Len(insts) THEN [h |-> h, insts |-> insts]
    ELSE IF insts[idx].capacity > 0
         THEN Then(FreeAll(h, ArrayPointers(insts[idx])),
                   LAMBDA h1 :
                       free_cpu_instances(
                           h1, [insts EXCEPT ![idx] = EmptyTracer], idx + 1))
         ELSE free_cpu_instances(h, insts, idx + 1)

\* the host frees a batch: the one it built, or the one staged back
FreeCpuInstances ==
    /\ gpu_instances = NULL
    /\ op.name \in {"push", "grow", "modify_last_stack", "from_gpu"}
    /\ \/ /\ returned = NULL
          /\ LET r == free_cpu_instances(heap, cpu_instances, 1)
             IN  heap' = r.h /\ cpu_instances' = r.insts
          /\ UNCHANGED returned
       \/ /\ returned # NULL
          /\ LET r == free_cpu_instances(
                          heap, ReadDescriptors(heap, returned,
                                                Len(cpu_instances)), 1)
             IN  heap' = Free([r.h EXCEPT ![returned].cells =
                                   Descriptors(r.insts)], returned)
          /\ UNCHANGED <<cpu_instances, returned>>
    /\ op' = [name |-> "free_cpu_instances"]
    /\ UNCHANGED <<frame, log, warmup, steps, wild, gpu_instances>>
    /\ UNCHANGED message_vars

InitPage == InitWith(PAGE_SIZE - 1, 1)

SpecPage == InitPage /\ [][Next]_vars

\* ------------------------------------------------------- staging a batch
ToGpu ==
    /\ OnHost
    /\ \E g \in Garbage :
         LET r == get_gpu_instances_from_cpu_instances(heap, cpu_instances, g)
         IN  /\ heap' = r.h
             /\ gpu_instances' = r.p
    /\ op' = [name |-> "to_gpu"]
    /\ UNCHANGED <<cpu_instances, frame, log, warmup, steps, wild, returned>>
    /\ UNCHANGED message_vars

FromGpu ==
    /\ gpu_instances # NULL
    /\ \E g \in Garbage :
         LET r == get_cpu_instances_from_gpu_instances(
                      heap, gpu_instances, Len(cpu_instances), g)
         IN  /\ heap' = r.h
             /\ returned' = r.p
    /\ gpu_instances' = NULL
    /\ op' = [name |-> "from_gpu"]
    /\ UNCHANGED <<cpu_instances, frame, log, warmup, steps, wild>>
    /\ UNCHANGED message_vars

\* get_cpu_instances_from_gpu_instances on a batch with arrays of cudaMalloc,
\* in a run where the delete[] of the kernel faults: the error surfaces at
\* cudaDeviceSynchronize (line 698) and the call does not return
KernelFaults ==
    /\ gpu_instances # NULL
    /\ \E i \in 1..Len(cpu_instances) :
         Cell(heap, gpu_instances, i - 1, ZeroDescriptor).size > 0
    /\ \E g \in Garbage :
         LET h4 == StageForKernel(heap, gpu_instances, Len(cpu_instances), g)
         IN  heap' = kernel_tracers(h4, Len(h4), gpu_instances,
                                    Len(cpu_instances), 0)
    /\ gpu_instances' = NULL
    /\ op' = [name |-> "from_gpu_failed"]
    /\ UNCHANGED <<cpu_instances, frame, log, warmup, steps, wild, returned>>
    /\ UNCHANGED message_vars

InitBatch == InitWith(0, BatchCount)

\* instance i of the batch logs one more instruction
BatchPush(i) == cpu_instances[i].size < MaxStaged /\ PushEntry(i)

\* the frame changes between the instructions of the batch
BatchFrame ==
    /\ steps < MaxFrames
    /\ \/ StackPushWord
       \/ StackPop
       \/ MemoryStore
       \/ TouchAccount

NextStaging ==
    \/ \E i \in 1..Len(cpu_instances) : BatchPush(i)
    \/ BatchFrame
    \/ ToGpu
    \/ FromGpu
    \/ KernelFaults

SpecStaging == InitBatch /\ [][NextStaging]_vars

\* a kernel grows the trace of instance i, empty on the device, and stops
\* before its push
DeviceGrow(i) ==
    /\ IsLive(heap, gpu_instances)
    /\ op.name \in {"to_gpu", "device_grow"}
    /\ Cell(heap, gpu_instances, i - 1, ZeroDescriptor).capacity = 0
    /\ LET r == grow(heap, Cell(heap, gpu_instances, i - 1, ZeroDescriptor),
                     "device")
       IN  heap' = WriteCell(r.h, gpu_instances, i - 1, r.c)
    /\ op' = [name |-> "device_grow"]
    /\ UNCHANGED <<cpu_instances, frame, log, warmup, steps, wild,
                   gpu_instances, returned>>
    /\ UNCHANGED message_vars

\* batches whose empty instances have arrays: grown on the host before the
\* staging, or on the device after it
NextEmpty ==
    \/ NextStaging
    \/ GrowTrace
    \/ \E i \in 1..Len(cpu_instances) : DeviceGrow(i)

SpecEmpty == InitBatch /\ [][NextEmpty]_vars

\* the life of a batch: pushes, grows, patches, staging both ways, release
NextLife ==
    \/ NextStaging
    \/ GrowTrace
    \/ ModifyLast
    \/ FreeCpuInstances

SpecLife == InitBatch /\ [][NextLife]_vars

\* only pushes and mutations of the live frame, across the page boundary
NextPush ==
    \/ PushEntry(1)
    \/ StackPushWord
    \/ StackPop
    \/ MemoryStore
    \/ TouchAccount

SpecPush == InitPage /\ [][NextPush]_vars

\* a trace of 300 idle pushes from get_cpu_instances, then the pushes and the
\* frame operations of NextPush
\* ------------------------------ push by the threads of one instance
\* the threads that run one instance together
PushThreads == 2

\* the position of a thread that has left push
PushDone == 9

\* ONE_THREAD_PER_INSTANCE without its barriers
barrier_open(pcs, b) == TRUE

\* the barrier on each side of a ONE_THREAD_PER_INSTANCE section: a thread
\* leaves position b when every thread of the instance has reached it
barrier(pcs, b) == \A u \in DOMAIN pcs : pcs[u] >= b

\* the threads of instance 1 enter push with the same arguments
PushBegin ==
    /\ OnHost
    /\ cpu_instances[1].size < warmup + MaxPushes
    /\ \E a \in PushArgs :
         op' = [name |-> "push_threads", a |-> a,
                pc |-> [t \in 1..PushThreads |-> 0],
                h0 |-> heap, c0 |-> cpu_instances[1],
                grows |-> 0, incs |-> 0, writes |-> {}]
    /\ UNCHANGED <<heap, cpu_instances, frame, log, warmup, steps, wild,
                   gpu_instances, returned>>
    /\ UNCHANGED message_vars

\* the next step of thread threadIdx in push: the test of line 232, grow
\* (barrier, the section in thread 0, barrier), the stores of lines 236-260
\* at the index size, the increment of size (barrier, the section in thread
\* 0, barrier)
ThreadPush(threadIdx) ==
    /\ op.name = "push_threads"
    /\ op.pc[threadIdx + 1] < PushDone
    /\ LET pc == op.pc[threadIdx + 1]
           c == cpu_instances[1]
           n == c.size
           a == op.a
           to(q) == [op EXCEPT !.pc[threadIdx + 1] = q]
           g == grow(heap, c, "device")
           h1 == WriteCell(heap, c.addresses, n, a.address)
           h2 == WriteCell(h1, c.pcs, n, a.pc)
           h3 == WriteCell(h2, c.opcodes, n, a.opcode)
           h4 == WriteCell(h3, c.gas_useds, n, a.gas_used)
           h5 == WriteCell(h4, c.gas_limits, n, a.gas_limit)
           h6 == WriteCell(h5, c.gas_refunds, n, a.gas_refund)
           h7 == WriteCell(h6, c.error_codes, n, a.error_code)
           s == to_stack_data_t(heap, frame.stack,
                                Cell(heap, c.stacks, n, EmptyStack), "device")
           h8 == WriteCell(s.h, c.stacks, n, s.v)
           m == to_memory_data_t(h8, frame.memory,
                                 Cell(h8, c.memories, n, EmptyMemory),
                                 "device")
           h9 == WriteCell(m.h, c.memories, n, m.v)
           t == to_touch_state_data_t(h9, frame.touch_state,
                                 Cell(h9, c.touch_states, n, EmptyTouch),
                                 "device")
           h10 == WriteCell(t.h, c.touch_states, n, t.v)
       IN  CASE pc = 0 ->
                  /\ op' = to(IF c.size = c.capacity THEN 1 ELSE 4)
                  /\ UNCHANGED <<heap, cpu_instances>>
             [] pc \in {1, 3, 6, 8} ->
                  /\ barrier(op.pc, pc)
                  /\ op' = to(pc + 1)
                  /\ UNCHANGED <<heap, cpu_instances>>
             [] pc = 2 /\ threadIdx = 0 ->
                  /\ heap' = g.h
                  /\ cpu_instances' = [cpu_instances EXCEPT ![1] = g.c]
                  /\ op' = [to(3) EXCEPT !.grows = @ + 1]
             [] pc = 4 ->
                  /\ heap' = h7
                  /\ op' = [to(5) EXCEPT !.writes = @ \cup {n}]
                  /\ UNCHANGED cpu_instances
             [] pc = 5 /\ threadIdx = 0 ->
                  /\ heap' = h10
                  /\ op' = [to(6) EXCEPT !.writes = @ \cup {n}]
                  /\ UNCHANGED cpu_instances
             [] pc = 7 /\ threadIdx = 0 ->
                  /\ cpu_instances' = [cpu_instances EXCEPT ![1].size = n + 1]
                  /\ op' = [to(8) EXCEPT !.incs = @ + 1]
                  /\ UNCHANGED heap
             [] OTHER ->
                  /\ op' = to(pc + 1)
                  /\ UNCHANGED <<heap, cpu_instances>>
    /\ UNCHANGED <<frame, log, warmup, steps, wild, gpu_instances, returned>>
    /\ UNCHANGED message_vars

\* every thread has left push
PushJoin ==
    /\ op.name = "push_threads"
    /\ \A t \in 1..PushThreads : op.pc[t] = PushDone
    /\ op' = [op EXCEPT !.name = "push_joined"]
    /\ log' = [log EXCEPT ![1] = Append(@, Logged(op.h0, frame, op.a))]
    /\ UNCHANGED <<heap, cpu_instances, frame, warmup, steps, wild,
                   gpu_instances, returned>>
    /\ UNCHANGED message_vars

NextThreads ==
    \/ PushBegin
    \/ \E threadIdx \in 0..(PushThreads - 1) : ThreadPush(threadIdx)
    \/ PushJoin
    \/ StackPushWord
    \/ StackPop
    \/ MemoryStore
    \/ TouchAccount

SpecThreads == Init /\ [][NextThreads]_vars

InitLong == InitWith(2 * PAGE_SIZE + 44, 1)

SpecLong == InitLong /\ [][NextPush]_vars

\* ------------------------------------------ kernel_tracers, by thread
\* the launch of line 697 has count threads; one more shows the early return
KernelThreads == BatchCount + 1

ThreadDone == 2 * Len(ArrayFields) + 2

\* a kernel whose threads all take instance 0 (what line 818 rules out)
thread_instance_zero(threadIdx) == 0

\* line 818, in a launch of one block
thread_instance(threadIdx) == threadIdx

\* the step at position pc of a thread of kernel_tracers: the tests of lines
\* 822-825, then one memcpy, one delete[] or the zeroing of the descriptor
thread_step(h, dst_instances, src_instances, count, instance, pc) ==
    LET src == Cell(h, src_instances, instance, ZeroDescriptor)
        dst == Cell(h, dst_instances, instance, ZeroDescriptor)
        n == Len(ArrayFields)
    IN  CASE pc = 0 ->
               [h |-> h,
                pc |-> IF instance >= count THEN ThreadDone
                       ELSE IF src.size > 0 THEN 1 ELSE ThreadDone]
          [] pc \in 1..n ->
               [h |-> Memcpy(h, dst[ArrayFields[pc]], src[ArrayFields[pc]],
                             src.size),
                pc |-> pc + 1]
          [] pc \in (n + 1)..(2 * n) ->
               [h |-> device_delete(h, src[ArrayFields[pc - n]]),
                pc |-> pc + 1]
          [] pc = 2 * n + 1 ->
               [h |-> WriteCell(h, src_instances, instance, ZeroDescriptor),
                pc |-> ThreadDone]

\* get_cpu_instances_from_gpu_instances up to its launch of the kernel
KernelLaunch ==
    /\ op.name = "to_gpu"
    /\ \E g \in Garbage :
         LET h4 == StageForKernel(heap, gpu_instances, Len(cpu_instances), g)
         IN  /\ heap' = h4
             /\ op' = [name |-> "kernel_tracers", dst |-> Len(h4), h0 |-> h4,
                       pc |-> [t \in 1..KernelThreads |-> 0],
                       cpu |-> Len(heap) + 1, h |-> heap, g |-> g]
    /\ UNCHANGED <<cpu_instances, frame, log, warmup, steps, wild,
                   gpu_instances, returned>>
    /\ UNCHANGED message_vars

\* thread threadIdx takes its next step
ThreadStep(threadIdx) ==
    /\ op.name = "kernel_tracers"
    /\ op.pc[threadIdx + 1] < ThreadDone
    /\ LET r == thread_step(heap, op.dst, gpu_instances, Len(cpu_instances),
                            thread_instance(threadIdx), op.pc[threadIdx + 1])
       IN  /\ heap' = r.h
           /\ op' = [op EXCEPT !.pc[threadIdx + 1] = r.pc]
    /\ UNCHANGED <<cpu_instances, frame, log, warmup, steps, wild,
                   gpu_instances, returned>>
    /\ UNCHANGED message_vars

NextKernel ==
    \/ \E i \in 1..Len(cpu_instances) : BatchPush(i)
    \/ ToGpu
    \/ KernelLaunch
    \/ \E threadIdx \in 0..(KernelThreads - 1) : ThreadStep(threadIdx)

SpecKernel == InitBatch /\ [][NextKernel]_vars

\* --------------------- get_cpu_instances_from_gpu_instances, step by step
\* a host that goes on without waiting for the kernel (what line 698 rules
\* out)
KernelSync_no_wait ==
    /\ op.name = "kernel_tracers"
    /\ LET count == Len(cpu_instances)
           h6 == Free(heap, gpu_instances)
           h7 == Memcpy(h6, op.cpu, op.dst, count)
       IN  /\ heap' = Append(h7, Block("host", count,
                          Descriptors(ReadDescriptors(h7, op.cpu, count))))
           /\ op' = [name |-> "from_gpu_loop", idx |-> 1, cpu |-> op.cpu,
                     dst |-> op.dst, tmp |-> Len(heap) + 1, pc |-> op.pc,
                     h |-> op.h, g |-> op.g]
    /\ UNCHANGED <<cpu_instances, frame, log, warmup, steps, wild,
                   gpu_instances, returned>>
    /\ UNCHANGED message_vars

\* lines 698-713: cudaDeviceSynchronize returns when every thread of the
\* launch has returned; the source outer array is freed, the descriptors the
\* kernel filled are copied to the host and to a shadow
KernelSync ==
    /\ op.name = "kernel_tracers"
    /\ \A t \in 1..KernelThreads : op.pc[t] = ThreadDone
    /\ KernelSync_no_wait

\* lines 714-794, one turn of the loop: the arrays of instance idx are copied
\* out of their staging buffers, each buffer freed after its copy
FromGpuInstance ==
    /\ op.name = "from_gpu_loop"
    /\ op.idx <= Len(cpu_instances)
    /\ LET filled == Cell(heap, op.cpu, op.idx - 1, ZeroDescriptor)
           r == ToCpuLoop(heap, <<filled>>, 1, << >>)
       IN  heap' = WriteCell(r.h, op.tmp, op.idx - 1, r.tmp[1])
    /\ op' = [op EXCEPT !.idx = @ + 1]
    /\ UNCHANGED <<cpu_instances, frame, log, warmup, steps, wild,
                   gpu_instances, returned>>
    /\ UNCHANGED message_vars

\* lines 795-802: the shadow replaces the descriptors, the temporary outer
\* array is freed and the host array returned
FromGpuFinish ==
    /\ op.name = "from_gpu_loop"
    /\ op.idx > Len(cpu_instances)
    /\ heap' = Free(Free(Memcpy(heap, op.cpu, op.tmp, Len(cpu_instances)),
                         op.tmp), op.dst)
    /\ returned' = op.cpu
    /\ gpu_instances' = NULL
    /\ op' = [name |-> "from_gpu", h |-> op.h, g |-> op.g]
    /\ UNCHANGED <<cpu_instances, frame, log, warmup, steps, wild>>
    /\ UNCHANGED message_vars

NextFromGpu ==
    \/ NextKernel
    \/ KernelSync
    \/ FromGpuInstance
    \/ FromGpuFinish

SpecFromGpu == InitBatch /\ [][NextFromGpu]_vars

\* ------------------------- get_gpu_instances_from_cpu_instances, by step
\* lines 448-456: the outer device array, holding descriptors of whatever
\* the allocator left there (g in every field), and the host shadow
ToGpuBegin ==
    /\ OnHost
    /\ \E g \in Garbage :
         /\ heap' = heap \o
                <<Block("device", Len(cpu_instances),
                        [k \in 0..(Len(cpu_instances) - 1) |->
                            [f \in DOMAIN ZeroDescriptor |-> g]]),
                  Block("host", Len(cpu_instances),
                        Descriptors(cpu_instances))>>
         /\ op' = [name |-> "to_gpu_loop", idx |-> 1, gpu |-> Len(heap) + 1,
                   tmp |-> Len(heap) + 2, g |-> g, h0 |-> heap]
    /\ UNCHANGED <<cpu_instances, frame, log, warmup, steps, wild,
                   gpu_instances, returned>>
    /\ UNCHANGED message_vars

\* lines 457-538: one turn of the loop, the arrays of instance idx staged
\* and their pointers stored in the shadow
ToGpuInstance ==
    /\ op.name = "to_gpu_loop"
    /\ op.idx <= Len(cpu_instances)
    /\ LET r == ToGpuLoop(heap, <<cpu_instances[op.idx]>>, 1, << >>, op.g)
       IN  heap' = WriteCell(r.h, op.tmp, op.idx - 1, r.tmp[1])
    /\ op' = [op EXCEPT !.idx = @ + 1]
    /\ UNCHANGED <<cpu_instances, frame, log, warmup, steps, wild,
                   gpu_instances, returned>>
    /\ UNCHANGED message_vars

\* lines 539-544: the shadow copied into the outer device array
ToGpuFinish ==
    /\ op.name = "to_gpu_loop"
    /\ op.idx > Len(cpu_instances)
    /\ heap' = Memcpy(heap, op.gpu, op.tmp, Len(cpu_instances))
    /\ gpu_instances' = op.gpu
    /\ op' = [name |-> "to_gpu", gpu |-> op.gpu, h0 |-> op.h0, g |-> op.g]
    /\ UNCHANGED <<cpu_instances, frame, log, warmup, steps, wild, returned>>
    /\ UNCHANGED message_vars

NextToGpu ==
    \/ \E i \in 1..Len(cpu_instances) : BatchPush(i)
    \/ BatchFrame
    \/ ToGpuBegin
    \/ ToGpuInstance
    \/ ToGpuFinish

SpecToGpu == InitBatch /\ [][NextToGpu]_vars

\* ------------------------------------------- a staging call that fails
\* get_gpu_instances_from_cpu_instances whose allocation number n + 1 fails:
\* the function holds no statement that releases a buffer, so the error
\* surfaces over the blocks its first n allocations made (the descriptor
\* shadow is shown with its final contents; only liveness is read from it)
ToGpuFails ==
    /\ OnHost
    /\ \E g \in Garbage :
         LET r == get_gpu_instances_from_cpu_instances(heap, cpu_instances, g)
         IN  \E n \in 0..(Len(r.h) - Len(heap) - 1) :
                 heap' = SubSeq(r.h, 1, Len(heap) + n)
    /\ op' = [name |-> "to_gpu_failed", first |-> Len(heap) + 1]
    /\ UNCHANGED <<cpu_instances, frame, log, warmup, steps, wild,
                   gpu_instances, returned>>
    /\ UNCHANGED message_vars

NextStagingFault ==
    \/ \E i \in 1..Len(cpu_instances) : BatchPush(i)
    \/ ToGpuFails

SpecStagingFault == InitBatch /\ [][NextStagingFault]_vars

\* ------------------------------------------------ a grow that fails
\* n blocks of len cells each, as the first n new[] of a grow leave them
RECURSIVE Allocated(_, _, _)
Allocated(h, len, n) ==
    IF n = 0 THEN h
    ELSE Allocated(Append(h, Block("host", len, NoCells)), len, n - 1)

\* a push on a full trace whose grow fails at its new[] number n + 1: the
\* exception leaves push before any store, grow has assigned no field of
\* _content yet, and the n arrays already allocated stay allocated
PushGrowFails ==
    /\ OnHost
    /\ cpu_instances[1].size = cpu_instances[1].capacity
    /\ \E n \in 0..(Len(ArrayFields) - 1) :
         heap' = Allocated(heap, cpu_instances[1].capacity + PAGE_SIZE, n)
    /\ op' = [name |-> "push_failed"]
    /\ UNCHANGED <<cpu_instances, frame, log, warmup, steps, wild,
                   gpu_instances, returned>>
    /\ UNCHANGED message_vars

NextGrowFault ==
    \/ NextPush
    \/ PushGrowFails

SpecGrowFault == InitPage /\ [][NextGrowFault]_vars

\* ================================================================ message_t
\* a C string is the sequence of its characters
HexDigits ==
    <<"0", "1", "2", "3", "4", "5", "6", "7", "8", "9",
      "a", "b", "c", "d", "e", "f">>

HexDigit(ch) == (CHOOSE d \in 1..Len(HexDigits) : HexDigits[d] = ch) - 1

\* the number the first n characters of str denote in base 16
RECURSIVE HexNat(_, _)
HexNat(str, n) ==
    IF n = 0 THEN 0 ELSE 16 * HexNat(str, n - 1) + HexDigit(str[n])

\* mpz_set_str(rop, str, 16) on a string of hexadecimal digits
mpz_set_str(str) == HexNat(str, Len(str))

\* adjusted_length(&hex_string): the string past its "0x" prefix and the
\* number of bytes it spells
adjusted_length(hex_string) ==
    IF Len(hex_string) >= 2 /\ hex_string[1] = "0" /\ hex_string[2] = "x"
    THEN [str |-> SubSeq(hex_string, 3, Len(hex_string)),
          size |-> (Len(hex_string) - 2) \div 2]
    ELSE [str |-> hex_string, size |-> Len(hex_string) \div 2]

\* hex_to_bytes(hex_string, byte_array, length): one byte per two characters
hex_to_bytes(hex_string, length) ==
    [k \in 0..((length \div 2) - 1) |->
        16 * HexDigit(hex_string[2 * k + 1]) + HexDigit(hex_string[2 * k + 2])]

\* from_mpz(limbs, count, value): the limbs of an evm_word_t, lowest first
from_mpz(value) ==
    [l \in 1..Limbs |-> (value \div (2 ^ (LimbBits * (l - 1)))) % (2 ^ LimbBits)]

\* the number a fixture string denotes, as an evm_word_t
HexWord(hex_string) == from_mpz(mpz_set_str(adjusted_length(hex_string).str))

\* the bytes of a data_content_t
DataValue(h, data) ==
    [k \in 1..data.size |-> Cell(h, data.data, k - 1, Indeterminate)]

\* lines 298-328: the fields every instance of the expansion shares
TransactionFields(test) ==
    [gasprice |-> HexWord(test.gasPrice),
     nonce |-> HexWord(test.nonce),
     to |-> IF Len(test.to) = 0 THEN from_mpz(0) ELSE HexWord(test.to),
     call_type |-> IF Len(test.to) = 0 THEN "OP_CREATE" ELSE "OP_CALL",
     caller |-> HexWord(test.sender),
     origin |-> HexWord(test.sender)]

\* a message that keeps the pointer to the buffer of its data entry
StoreMessage_shared(s, tx, data_content, data_size, gas, value) ==
    [h |-> s.h,
     cpu_messages |->
         (s.instance_idx :>
             [caller |-> tx.caller, value |-> value, to |-> tx.to,
              nonce |-> tx.nonce,
              tx |-> [origin |-> tx.origin, gasprice |-> tx.gasprice],
              gas |-> gas, depth |-> 0, call_type |-> tx.call_type,
              storage |-> Indeterminate,
              data |-> [size |-> data_size, data |-> data_content]])
         @@ s.cpu_messages,
     instance_idx |-> s.instance_idx + 1]

\* lines 358-373: the message at instance_idx; its data is a copy of its own
StoreMessage(s, tx, data_content, data_size, gas, value) ==
    LET own == IF data_size > 0 THEN Len(s.h) + 1 ELSE NULL
        m == [caller |-> tx.caller, value |-> value, to |-> tx.to,
              nonce |-> tx.nonce,
              tx |-> [origin |-> tx.origin, gasprice |-> tx.gasprice],
              gas |-> gas, depth |-> 0, call_type |-> tx.call_type,
              storage |-> Indeterminate,
              data |-> [size |-> data_size, data |-> own]]
    IN  [h |-> IF data_size > 0
               THEN Append(s.h, Block("host", data_size,
                                      CopyCells(s.h, data_content, data_size)))
               ELSE s.h,
         cpu_messages |-> (s.instance_idx :> m) @@ s.cpu_messages,
         instance_idx |-> s.instance_idx + 1]

\* lines 351-374: the loop over the values
RECURSIVE ValueLoop(_, _, _, _, _, _, _)
ValueLoop(s, test, tx, data_content, data_size, gas, kdx) ==
    IF kdx >= Len(test.value) THEN s
    ELSE Then(StoreMessage(s, tx, data_content, data_size, gas,
                           HexWord(test.value[kdx + 1])),
              LAMBDA s1 :
                  ValueLoop(s1, test, tx, data_content, data_size, gas,
                            kdx + 1))

\* lines 346-375: the loop over the gas limits
RECURSIVE GasLoop(_, _, _, _, _, _)
GasLoop(s, test, tx, data_content, data_size, jdx) ==
    IF jdx >= Len(test.gasLimit) THEN s
    ELSE Then(HexWord(test.gasLimit[jdx + 1]),
              LAMBDA gas :
         Then(ValueLoop(s, test, tx, data_content, data_size, gas, 0),
              LAMBDA s1 :
                  GasLoop(s1, test, tx, data_content, data_size, jdx + 1)))

\* lines 336-377: the loop over the data entries
RECURSIVE DataLoop(_, _, _, _)
DataLoop(s, test, tx, idx) ==
    IF idx >= Len(test.data) THEN s
    ELSE Then(adjusted_length(test.data[idx + 1]),
              LAMBDA a :
         Then(IF a.size > 0
              THEN [s EXCEPT !.h = Append(@, Block("host", a.size,
                                   hex_to_bytes(a.str, 2 * a.size)))]
              ELSE s,
              LAMBDA s1 :
         Then(GasLoop(s1, test, tx,
                      IF a.size > 0 THEN Len(s.h) + 1 ELSE NULL, a.size, 0),
              LAMBDA s2 :
         Then([s2 EXCEPT !.h = Free(@, IF a.size > 0 THEN Len(s.h) + 1
                                       ELSE NULL)],
              LAMBDA s3 : DataLoop(s3, test, tx, idx + 1)))))

\* lines 330-377: count messages, filled by the three loops
expand(h, test, tx) ==
    Then(DataLoop([h |-> h, cpu_messages |-> NoCells, instance_idx |-> 0],
                  test, tx, 0),
         LAMBDA s :
             [h |-> s.h,
              count |-> Len(test.data) * Len(test.gasLimit) * Len(test.value),
              cpu_messages |-> s.cpu_messages])

\* the expansion with the gas limits and the values taken one for the other
get_messages_swapped(h, test) ==
    expand(h, [test EXCEPT !.gasLimit = test.value, !.value = test.gasLimit],
           TransactionFields(test))

\* the expansion that never sees a contract creation
get_messages_call_only(h, test) ==
    expand(h, test, [TransactionFields(test) EXCEPT !.call_type = "OP_CALL"])

\* message_t::get_messages(test, count)
get_messages(h, test) == expand(h, test, TransactionFields(test))

\* get_data with the clamp to the end of the data left out
get_data_unclamped(c, index, length) ==
    IF index >= c.data.size
    THEN [available_size |-> 0, ptr |-> [base |-> c.data.data, offset |-> 0]]
    ELSE [available_size |-> length,
          ptr |-> [base |-> c.data.data, offset |-> index]]

\* get_data with nothing available once index + length overflows
get_data_overflow_empty(c, index, length) ==
    IF index + length >= 2 ^ AddrBits \/ index >= c.data.size
    THEN [available_size |-> 0, ptr |-> [base |-> c.data.data, offset |-> 0]]
    ELSE IF index + length <= c.data.size
    THEN [available_size |-> length,
          ptr |-> [base |-> c.data.data, offset |-> index]]
    ELSE [available_size |-> c.data.size - index,
          ptr |-> [base |-> c.data.data, offset |-> index]]

\* message_t::get_data(index, length, available_size) on the content c; the
\* pointer returned is data.data + offset
get_data(c, index, length) ==
    LET last_offset == (index + length) % (2 ^ AddrBits)
        at(k) == [base |-> c.data.data, offset |-> k]
    IN  IF last_offset < index \/ last_offset < length
        THEN IF index < c.data.size
             THEN [available_size |-> c.data.size - index, ptr |-> at(index)]
             ELSE [available_size |-> 0, ptr |-> at(0)]
        ELSE IF index >= c.data.size
        THEN [available_size |-> 0, ptr |-> at(0)]
        ELSE IF last_offset <= c.data.size
        THEN [available_size |-> length, ptr |-> at(index)]
        ELSE IF index < c.data.size
        THEN [available_size |-> c.data.size - index, ptr |-> at(index)]
        ELSE [available_size |-> 0, ptr |-> at(0)]

\* ------------------------------------------------ a message and its slices
\* no tracer instance is involved
NoTracer ==
    /\ cpu_instances = << >>
    /\ frame = InitFrame
    /\ log = << >>
    /\ gpu_instances = NULL
    /\ returned = NULL
    /\ op = [name |-> "init"]
    /\ warmup = 0
    /\ steps = 0
    /\ wild = {}

tracer_vars ==
    <<cpu_instances, frame, log, warmup, steps, wild, gpu_instances, returned>>

\* a message whose data holds n bytes
MessageOf(n) ==
    [caller |-> from_mpz(0), value |-> from_mpz(0), to |-> from_mpz(0),
     nonce |-> from_mpz(0),
     tx |-> [origin |-> from_mpz(0), gasprice |-> from_mpz(0)],
     gas |-> from_mpz(0), depth |-> 0, call_type |-> "OP_CALL",
     storage |-> Indeterminate,
     data |-> [size |-> n, data |-> IF n > 0 THEN 1 ELSE NULL]]

InitData ==
    /\ NoTracer
    /\ \E n \in 0..(2 ^ AddrBits - 1) :
         /\ heap = IF n > 0
                   THEN <<Block("host", n, [k \in 0..(n - 1) |-> 170])>>
                   ELSE << >>
         /\ content = MessageOf(n)
    /\ transaction = NULL
    /\ messages = NULL
    /\ slice = NULL

\* one call of get_data on the message
GetData ==
    /\ \E index \in 0..(2 ^ AddrBits - 1), length \in 0..(2 ^ AddrBits - 1) :
         slice' = [index |-> index, length |-> length,
                   result |-> get_data(content, index, length)]
    /\ op' = [name |-> "get_data"]
    /\ UNCHANGED <<heap, transaction, messages, content>>
    /\ UNCHANGED tracer_vars

SpecData == InitData /\ [][GetData]_vars

\* ------------------------------------------------ the expansion of a fixture
SeqsUpTo(S, n) == UNION {[1..m -> S] : m \in 0..n}

DataStrings == {<<"0", "x">>, <<"0", "x", "a", "b", "0", "1">>}
GasStrings == {<<"0", "x", "0", "5">>, <<"0", "x", "1", "f">>}
ValueStrings == {<<"0", "x", "0", "0">>, <<"0", "x", "0", "1">>}
ToStrings == {<< >>, <<"0", "x", "0", "b">>}
SenderStrings == {<<"0", "x", "0", "a">>, <<"0", "c">>}

\* the "transaction" object of a fixture
Fixtures ==
    [data : SeqsUpTo(DataStrings, MaxList),
     gasLimit : SeqsUpTo(GasStrings, MaxList),
     value : SeqsUpTo(ValueStrings, MaxList),
     to : ToStrings,
     sender : SenderStrings,
     nonce : {<<"0", "x", "0", "2">>},
     gasPrice : {<<"0", "x", "0", "a">>}]

InitMessages ==
    /\ NoTracer
    /\ heap = << >>
    /\ transaction \in Fixtures
    /\ messages = NULL
    /\ content = NULL
    /\ slice = NULL

\* the loader expands the fixture
GetMessages ==
    /\ op.name = "init"
    /\ LET r == get_messages(heap, transaction)
       IN  /\ heap' = r.h
           /\ messages' = [count |-> r.count, cpu_messages |-> r.cpu_messages]
    /\ op' = [name |-> "get_messages"]
    /\ UNCHANGED <<transaction, content, slice>>
    /\ UNCHANGED tracer_vars

SpecMessages == InitMessages /\ [][GetMessages]_vars

\* ------------------------------------------ message_t(arith, const cJSON *)
\* message_t::free_messages(cpu_messages, count), the loop from idx on
RECURSIVE free_messages(_, _, _, _)
free_messages(h, cpu_messages, count, idx) ==
    IF idx >= count THEN h
    ELSE Then(Free(h, cpu_messages[idx].data.data),
              LAMBDA h1 : free_messages(h1, cpu_messages, count, idx + 1))

\* what a uint32_t read outside every object may hold
Uninitialized == Garbage \cup {2 ^ SizeBits - 1}

\* the constructor from a fixture: message 0 of the expansion with its own
\* copy of the data.  With count = 0 the memcpy of line 93 reads past the
\* empty array, and depth is whatever lies there (u)
message_t(h, test, u) ==
    Then(get_messages(h, test),
         LAMBDA r :
             IF r.count > 0
             THEN Then(r.cpu_messages[0],
                       LAMBDA m :
                  Then(IF m.data.size > 0
                       THEN Append(r.h, Block("host", m.data.size,
                                              CopyCells(r.h, m.data.data,
                                                        m.data.size)))
                       ELSE r.h,
                       LAMBDA h1 :
                           [h |-> free_messages(h1, r.cpu_messages, r.count, 0),
                            content |->
                                [m EXCEPT !.data.data =
                                    IF m.data.size > 0 THEN Len(h1)
                                    ELSE NULL]]))
             ELSE [h |-> r.h, content |-> [MessageOf(0) EXCEPT !.depth = u]])

MessageFromJson ==
    /\ op.name = "init"
    /\ \E u \in Uninitialized :
         LET r == message_t(heap, transaction, u)
         IN  /\ heap' = r.h
             /\ content' = r.content
    \* line 93 copies cpu_messages[0], whatever count is
    /\ op' = [name |-> "message_t", read |-> {0}]
    /\ UNCHANGED <<transaction, messages, slice>>
    /\ UNCHANGED tracer_vars

NextMessage ==
    \/ GetMessages
    \/ MessageFromJson

SpecMessage == InitMessages /\ [][NextMessage]_vars

\* ------------------------------------------------- two runs of the loader
\* what the storage word of a message holds when nothing wrote it
UnsetWords == {from_mpz(0), from_mpz(91)}

\* line 331: the array comes from malloc, so each field the loops of 336-377
\* do not write keeps what the memory held (u); they write every field but
\* storage
Loaded(cpu_messages, u) ==
    [idx \in DOMAIN cpu_messages |->
        [cpu_messages[idx] EXCEPT !.storage = u]]

\* the first run of the loader on the fixture
FirstRun ==
    /\ op.name = "init"
    /\ \E u \in UnsetWords :
         LET r == get_messages(heap, transaction)
         IN  /\ heap' = r.h
             /\ messages' = [count |-> r.count,
                             cpu_messages |-> Loaded(r.cpu_messages, u)]
    /\ op' = [name |-> "get_messages"]
    /\ UNCHANGED <<transaction, content, slice>>
    /\ UNCHANGED tracer_vars

\* a second run on the same fixture; its result is kept in op
SecondRun ==
    /\ op.name = "get_messages"
    /\ \E u \in UnsetWords :
         LET r == get_messages(heap, transaction)
         IN  /\ heap' = r.h
             /\ op' = [name |-> "get_messages_again", count |-> r.count,
                       cpu_messages |-> Loaded(r.cpu_messages, u)]
    /\ UNCHANGED <<transaction, messages, content, slice>>
    /\ UNCHANGED tracer_vars

NextRuns ==
    \/ FirstRun
    \/ SecondRun

SpecRuns == InitMessages /\ [][NextRuns]_vars

\* ------------------------------------------------ messages on the device
\* lines 401-409 of get_gpu_messages, the loop from idx on: the data of each
\* message of the shadow tmp is staged in a device buffer of its own
RECURSIVE StageMessages(_, _, _, _, _, _)
StageMessages(h, tmp, cpu_messages, count, idx, g) ==
    IF idx >= count THEN h
    ELSE IF cpu_messages[idx].data.size > 0
    THEN Then(cudaMalloc(h, cpu_messages[idx].data.size, g),
              LAMBDA h1 :
         Then(Memcpy(h1, Len(h1), cpu_messages[idx].data.data,
                     cpu_messages[idx].data.size),
              LAMBDA h2 :
         Then(WriteCell(h2, tmp, idx,
                        [cpu_messages[idx] EXCEPT !.data.data = Len(h1)]),
              LAMBDA h3 :
                  StageMessages(h3, tmp, cpu_messages, count, idx + 1, g))))
    ELSE Then(WriteCell(h, tmp, idx,
                        [cpu_messages[idx] EXCEPT !.data.data = NULL]),
              LAMBDA h1 :
                  StageMessages(h1, tmp, cpu_messages, count, idx + 1, g))

\* a staging that hands the device the host pointers
get_gpu_messages_shallow(h, cpu_messages, count, g) ==
    Then(cudaMalloc(h, count, g),
         LAMBDA h1 :
             [h |-> [h1 EXCEPT ![Len(h1)].cells = cpu_messages],
              p |-> Len(h1)])

\* message_t::get_gpu_messages(cpu_messages, count)
get_gpu_messages(h, cpu_messages, count, g) ==
    Then(Append(h, Block("host", count, cpu_messages)),
         LAMBDA h1 :
    Then(StageMessages(h1, Len(h1), cpu_messages, count, 0, g),
         LAMBDA h2 :
    Then(cudaMalloc(h2, count, g),
         LAMBDA h3 :
    Then(Memcpy(h3, Len(h3), Len(h1), count),
         LAMBDA h4 : [h |-> Free(h4, Len(h1)), p |-> Len(h3)]))))

\* lines 422-426 of free_gpu_messages, the loop from idx on
RECURSIVE FreeStaged(_, _, _, _)
FreeStaged(h, tmp, count, idx) ==
    IF idx >= count THEN h
    ELSE Then(Cell(h, tmp, idx, MessageOf(0)),
              LAMBDA m :
         Then(IF m.data.size > 0 /\ m.data.data # NULL
              THEN Free(h, m.data.data) ELSE h,
              LAMBDA h1 : FreeStaged(h1, tmp, count, idx + 1)))

\* message_t::free_gpu_messages(gpu_messages, count)
free_gpu_messages(h, gpu_messages, count) ==
    Then(Append(h, Block("host", count, NoCells)),
         LAMBDA h1 :
    Then(Memcpy(h1, Len(h1), gpu_messages, count),
         LAMBDA h2 :
    Then(FreeStaged(h2, Len(h1), count, 0),
         LAMBDA h3 : Free(Free(h3, Len(h1)), gpu_messages))))

\* the host releases the expansion
FreeMessages ==
    /\ op.name \in {"get_messages", "free_gpu_messages"}
    /\ heap' = free_messages(heap, messages.cpu_messages, messages.count, 0)
    /\ op' = [name |-> "free_messages"]
    /\ UNCHANGED message_vars
    /\ UNCHANGED tracer_vars

\* the expansion is staged on the device
GetGpuMessages ==
    /\ op.name = "get_messages"
    /\ \E g \in Garbage :
         LET r == get_gpu_messages(heap, messages.cpu_messages,
                                   messages.count, g)
         IN  /\ heap' = r.h
             /\ op' = [name |-> "get_gpu_messages", gpu |-> r.p]
    /\ UNCHANGED message_vars
    /\ UNCHANGED tracer_vars

\* the staged messages are released
FreeGpuMessages ==
    /\ op.name = "get_gpu_messages"
    /\ heap' = free_gpu_messages(heap, op.gpu, messages.count)
    /\ op' = [name |-> "free_gpu_messages", gpu |-> op.gpu]
    /\ UNCHANGED message_vars
    /\ UNCHANGED tracer_vars

NextGpuMessages ==
    \/ GetMessages
    \/ FreeMessages
    \/ GetGpuMessages
    \/ FreeGpuMessages

SpecGpuMessages == InitMessages /\ [][NextGpuMessages]_vars

\* ============================================================ arith_env_t
\* params::BITS / 8 of the words of this section
WordBytes == 2

BITS == 8 * WordBytes

ByteValues == {0, 1, 127, 128, 170, 255}

\* the words whose bytes are drawn from ByteValues
RECURSIVE WordsOf(_)
WordsOf(n) ==
    IF n = 0 THEN {0}
    ELSE {256 * w + b : w \in WordsOf(n - 1), b \in ByteValues}

\* cgbn_extract_bits_ui32(env, a, start, len)
cgbn_extract_bits_ui32(a, start, len) == (a \div (2 ^ start)) % (2 ^ len)

\* a loop that takes the byte of idx from the low end of the word
RECURSIVE from_cgbn_to_memory_low_first(_, _, _, _)
from_cgbn_to_memory_low_first(h, dst, a, idx) ==
    IF idx >= BITS \div 8 THEN h
    ELSE Then(WriteCell(h, dst, idx, cgbn_extract_bits_ui32(a, idx * 8, 8)),
              LAMBDA h1 : from_cgbn_to_memory_low_first(h1, dst, a, idx + 1))

\* arith_env_t::from_cgbn_to_memory(dst, a), the loop from idx on
RECURSIVE from_cgbn_to_memory(_, _, _, _)
from_cgbn_to_memory(h, dst, a, idx) ==
    IF idx >= BITS \div 8 THEN h
    ELSE Then(WriteCell(h, dst, idx,
                        cgbn_extract_bits_ui32(a, BITS - (idx + 1) * 8, 8)),
              LAMBDA h1 : from_cgbn_to_memory(h1, dst, a, idx + 1))

\* a word in a register and a buffer of BITS / 8 bytes not yet written
InitWord ==
    /\ cpu_instances = << >>
    /\ frame = InitFrame
    /\ log = << >>
    /\ gpu_instances = NULL
    /\ returned = NULL
    /\ warmup = 0
    /\ steps = 0
    /\ wild = {}
    /\ transaction = NULL
    /\ messages = NULL
    /\ content = NULL
    /\ slice = NULL
    /\ \E g \in Garbage :
         heap = <<Block("device", BITS \div 8,
                        [k \in 0..(BITS \div 8 - 1) |-> g])>>
    /\ \E a \in WordsOf(WordBytes) : op = [name |-> "init", a |-> a]

FromCgbnToMemory ==
    /\ op.name = "init"
    /\ heap' = from_cgbn_to_memory(heap, 1, op.a, 0)
    /\ op' = [name |-> "from_cgbn_to_memory", a |-> op.a, dst |-> 1]
    /\ UNCHANGED tracer_vars
    /\ UNCHANGED message_vars

SpecWord == InitWord /\ [][FromCgbnToMemory]_vars

\* an insertion that adds the bits to the ones already there
cgbn_insert_bits_ui32_add(a, start, len, value) ==
    (a + (value % (2 ^ len)) * (2 ^ start)) % (2 ^ BITS)

\* cgbn_insert_bits_ui32(env, r, a, start, len, value): a with the len bits
\* from start on replaced by the low len bits of value
cgbn_insert_bits_ui32(a, start, len, value) ==
    a - cgbn_extract_bits_ui32(a, start, len) * (2 ^ start)
      + (value % (2 ^ len)) * (2 ^ start)

\* arith_env_t::from_memory_to_cgbn(a, src), the loop from idx on
RECURSIVE from_memory_to_cgbn(_, _, _, _)
from_memory_to_cgbn(a, h, src, idx) ==
    IF idx >= BITS \div 8 THEN a
    ELSE Then(cgbn_insert_bits_ui32(a, BITS - (idx + 1) * 8, 8,
                                    Cell(h, src, idx, Indeterminate)),
              LAMBDA a1 : from_memory_to_cgbn(a1, h, src, idx + 1))

\* what the output word of from_memory_to_cgbn may hold before the call
PreviousWords == {0, 1, 2 ^ BITS - 1}

\* a buffer of BITS / 8 bytes (block 1), a second buffer not yet written
\* (block 2) and a word in a register
InitConvert ==
    /\ cpu_instances = << >>
    /\ frame = InitFrame
    /\ log = << >>
    /\ gpu_instances = NULL
    /\ returned = NULL
    /\ warmup = 0
    /\ steps = 0
    /\ wild = {}
    /\ transaction = NULL
    /\ messages = NULL
    /\ content = NULL
    /\ slice = NULL
    /\ \E b \in [0..(BITS \div 8 - 1) -> ByteValues], g \in Garbage :
         heap = <<Block("device", BITS \div 8, b),
                  Block("device", BITS \div 8,
                        [k \in 0..(BITS \div 8 - 1) |-> g])>>
    /\ \E a \in WordsOf(WordBytes) :
         op = [name |-> "init", a |-> a, src |-> 1, calls |-> 0]

\* from_memory_to_cgbn(a, src) on the buffer last written, the word a holding
\* any previous value
MemoryToCgbn ==
    /\ op.calls < 2
    /\ op.name # "from_memory_to_cgbn"
    /\ \E previous \in PreviousWords :
         op' = [name |-> "from_memory_to_cgbn",
                a |-> from_memory_to_cgbn(previous, heap, op.src, 0),
                src |-> op.src, calls |-> op.calls + 1]
    /\ UNCHANGED heap
    /\ UNCHANGED tracer_vars
    /\ UNCHANGED message_vars

\* from_cgbn_to_memory(dst, a) of the word in the register into block 2
CgbnToMemory ==
    /\ op.calls < 2
    /\ op.name # "from_cgbn_to_memory"
    /\ heap' = from_cgbn_to_memory(heap, 2, op.a, 0)
    /\ op' = [name |-> "from_cgbn_to_memory", a |-> op.a, src |-> 2,
              calls |-> op.calls + 1]
    /\ UNCHANGED tracer_vars
    /\ UNCHANGED message_vars

NextConvert ==
    \/ MemoryToCgbn
    \/ CgbnToMemory

SpecConvert == InitConvert /\ [][NextConvert]_vars

\* ================================================ json_from_tracer_data_t
\* the limbs of an address that are rendered (5 of the 8 of a word, line 337)
AddressLimbs == 1

\* the n low hexadecimal digits of value, the most significant first
RECURSIVE HexDigitsOf(_, _)
HexDigitsOf(value, n) ==
    IF n = 0 THEN << >>
    ELSE Append(HexDigitsOf(value \div 16, n - 1), HexDigits[(value % 16) + 1])

\* arith.hex_string_from_cgbn_memory(hex_string_ptr, word, count): "0x" and
\* the hexadecimal digits of the count low limbs of the word
hex_string_from_cgbn_memory(word, count) ==
    <<"0", "x">>
        \o HexDigitsOf(word % (2 ^ (count * LimbBits)),
                       (count * LimbBits + 3) \div 4)

\* stack_t::json_from_stack_data_t: the words of the stack, the top last
json_from_stack_data_t(stack) ==
    [k \in 1..Len(stack) |-> hex_string_from_cgbn_memory(stack[k], Limbs)]

\* memory_t::json_from_memory_data_t: the bytes of the memory in hexadecimal
RECURSIVE json_from_memory_data_t(_)
json_from_memory_data_t(memory) ==
    IF memory = << >> THEN << >>
    ELSE HexDigitsOf(Head(memory), 2) \o json_from_memory_data_t(Tail(memory))

\* touch_state_t::json_from_touch_state_data_t: the touched accounts in order
json_from_touch_state_data_t(touch_state) ==
    [k \in 1..Len(touch_state) |->
        [account |-> hex_string_from_cgbn_memory(touch_state[k][1], Limbs),
         touch |-> touch_state[k][2]]]

Member(key, type, value) == [key |-> key, type |-> type, value |-> value]

\* a variant that adds gas_used with cJSON_AddNumberToObject
json_item_numeric_gas(e) ==
    <<Member("address", "string",
             hex_string_from_cgbn_memory(e.address, AddressLimbs)),
      Member("pc", "number", e.pc),
      Member("opcode", "number", e.opcode),
      Member("stack", "json", json_from_stack_data_t(e.stack)),
      Member("memory", "json", json_from_memory_data_t(e.memory)),
      Member("touch_state", "json",
             json_from_touch_state_data_t(e.touch_state)),
      Member("gas_used", "number", e.gas_used),
      Member("gas_limit", "string",
             hex_string_from_cgbn_memory(e.gas_limit, Limbs)),
      Member("gas_refund", "string",
             hex_string_from_cgbn_memory(e.gas_refund, Limbs)),
      Member("error_code", "number", e.error_code)>>

\* lines 333-366: the object of one entry, its members in the order added
json_item(e) ==
    <<Member("address", "string",
             hex_string_from_cgbn_memory(e.address, AddressLimbs)),
      Member("pc", "number", e.pc),
      Member("opcode", "number", e.opcode),
      Member("stack", "json", json_from_stack_data_t(e.stack)),
      Member("memory", "json", json_from_memory_data_t(e.memory)),
      Member("touch_state", "json",
             json_from_touch_state_data_t(e.touch_state)),
      Member("gas_used", "string",
             hex_string_from_cgbn_memory(e.gas_used, Limbs)),
      Member("gas_limit", "string",
             hex_string_from_cgbn_memory(e.gas_limit, Limbs)),
      Member("gas_refund", "string",
             hex_string_from_cgbn_memory(e.gas_refund, Limbs)),
      Member("error_code", "number", e.error_code)>>

\* a variant that hands the addresses array to delete[] with the buffer
json_from_tracer_data_t_releasing(h, tracer_data) ==
    [h |-> Free(Free(Append(h, Block("host", 2 * ((Limbs * LimbBits) \div 8)
                                                + 3, NoCells)),
                     Len(h) + 1), tracer_data.addresses),
     doc |-> [idx \in 1..tracer_data.size |->
                 json_item(Entry(h, tracer_data, idx - 1))]]

\* tracer_t::json_from_tracer_data_t(arith, tracer_data): hex_string_ptr is
\* allocated and deleted, the array gets one object per entry below size
json_from_tracer_data_t(h, tracer_data) ==
    [h |-> Free(Append(h, Block("host", 2 * ((Limbs * LimbBits) \div 8) + 3,
                                NoCells)),
                Len(h) + 1),
     doc |-> [idx \in 1..tracer_data.size |->
                 json_item(Entry(h, tracer_data, idx - 1))]]

\* tracer_t::json() of the instance
RenderJson ==
    /\ Warm
    /\ OnHost
    /\ steps < MaxSteps
    /\ steps' = steps + 1
    /\ LET r == json_from_tracer_data_t(heap, cpu_instances[1])
       IN  /\ heap' = r.h
           /\ op' = [name |-> "json", doc |-> r.doc]
    /\ UNCHANGED <<cpu_instances, frame, log, warmup, wild, gpu_instances,
                   returned>>
    /\ UNCHANGED message_vars

NextJson ==
    \/ Next
    \/ RenderJson

SpecJson == Init /\ [][NextJson]_vars

\* ================================================================= claims
Tracer == cpu_instances[1]

Snapshots(e) ==
    [stack |-> e.stack, memory |-> e.memory, touch_state |-> e.touch_state]

\* C1: the entry a push logs holds the stack, memory and touch state of the
\* frame at the moment of the push, and no later mutation of the live stack,
\* memory or touch state changes any logged entry.
C1_SnapshotIndependent ==
    [][/\ op'.name = "push" =>
            Snapshots(Entry(heap', Tracer', Tracer.size))
                = FrameValue(heap, frame)
       /\ op'.name = "frame" =>
            Entries(heap', Tracer') = Entries(heap, Tracer)]_vars

\* a logged entry whose stack, memory or touch state differs from the live
\* frame, which was mutated after the push
C1_Witness ==
    /\ op.name = "frame"
    /\ Tracer.size >= 1
    /\ \E k \in 1..Tracer.size :
         /\ Entry(heap, Tracer, k - 1).stack # << >>
         /\ Entry(heap, Tracer, k - 1).stack # StackValue(heap, frame.stack)
         /\ Len(StackValue(heap, frame.stack)) > 0

\* C3: a grow, called directly or by a push on a full trace, leaves size and
\* all ten fields of every entry at an index in [0, size) as they were.
C3_GrowPreserves ==
    [][/\ op'.name = "grow" =>
            /\ Tracer'.size = Tracer.size
            /\ Entries(heap', Tracer') = Entries(heap, Tracer)
       /\ (op'.name = "push" /\ Tracer.size = Tracer.capacity) =>
            \A k \in 1..Tracer.size :
                Entry(heap', Tracer', k - 1) = Entry(heap, Tracer, k - 1)]_vars

\* a trace of more than one page whose entries carry snapshots, after a grow
C3_Witness ==
    /\ op.name \in {"grow", "push"}
    /\ Tracer.capacity >= 2 * PAGE_SIZE
    /\ Tracer.size >= PAGE_SIZE
    /\ Entry(heap, Tracer, PAGE_SIZE - 1).stack # << >>
    /\ Entry(heap, Tracer, PAGE_SIZE - 1).memory # << >>

\* C4: entry k holds the arguments of push number k + 1; a push adds one
\* entry and changes no field of an entry below the size before it.
C4_AppendOnly ==
    /\ [](Entries(heap, Tracer) = log[1])
    /\ [][op'.name = "push" =>
            /\ Tracer'.size = Tracer.size + 1
            /\ \A k \in 1..Tracer.size :
                 Entry(heap', Tracer', k - 1) = Entry(heap, Tracer, k - 1)]_vars

\* pushes with different arguments and frames on both sides of a page boundary
C4_Witness ==
    /\ Tracer.size = PAGE_SIZE + 1
    /\ log[1][PAGE_SIZE] # log[1][PAGE_SIZE + 1]
    /\ log[1][PAGE_SIZE].stack # << >>
    /\ log[1][PAGE_SIZE + 1].error_code # log[1][PAGE_SIZE].error_code

\* C5: a push grows the trace exactly when size = capacity; a grow adds
\* PAGE_SIZE = 128 to the capacity; a push below capacity keeps the capacity
\* and the arrays; no push, grow or modify_last_stack lowers the capacity.
C5_CapacityPolicy ==
    [][/\ op'.name = "push" =>
            IF Tracer.size = Tracer.capacity
            THEN /\ Tracer'.capacity = Tracer.capacity + 128
                 /\ \A j \in 1..Len(ArrayFields) :
                      ArrayPointers(Tracer')[j] # ArrayPointers(Tracer)[j]
            ELSE /\ Tracer'.capacity = Tracer.capacity
                 /\ ArrayPointers(Tracer') = ArrayPointers(Tracer)
       /\ op'.name = "grow" => Tracer'.capacity = Tracer.capacity + 128
       /\ op'.name \in {"push", "grow", "modify_last_stack"} =>
            Tracer'.capacity >= Tracer.capacity]_vars

\* a push on a full page of PAGE_SIZE entries, which grew the trace
C5_Witness ==
    /\ op.name = "push"
    /\ Tracer.size = PAGE_SIZE + 1
    /\ Tracer.capacity = 2 * PAGE_SIZE

\* C6: modify_last_stack on a trace with size >= 1 replaces the stack
\* snapshot at index size - 1 by the live stack and changes nothing else:
\* not size, capacity, another field of that entry or an earlier entry.
C6_ModifyLastOnly ==
    [][(op'.name = "modify_last_stack" /\ Tracer.size >= 1) =>
          /\ Tracer'.size = Tracer.size
          /\ Tracer'.capacity = Tracer.capacity
          /\ ArrayPointers(Tracer') = ArrayPointers(Tracer)
          /\ \A k \in 1..(Tracer.size - 1) :
               Entry(heap', Tracer', k - 1) = Entry(heap, Tracer, k - 1)
          /\ Entry(heap', Tracer', Tracer.size - 1) =
               [Entry(heap, Tracer, Tracer.size - 1)
                   EXCEPT !.stack = StackValue(heap, frame.stack)]]_vars

\* the last of two entries was patched with a stack that differs from the
\* one it was pushed with and from the stack of the entry before it
C6_Witness ==
    /\ op.name = "modify_last_stack"
    /\ Tracer.size = 2
    /\ Entry(heap, Tracer, 1).stack # log[1][2].stack
    /\ Entry(heap, Tracer, 0).stack # Entry(heap, Tracer, 1).stack
    /\ Entry(heap, Tracer, 0).stack # << >>

Returned == ReadDescriptors(heap, returned, Len(cpu_instances))

\* C2: staging a batch to the device and back returns, for every instance,
\* the size it had and, at every index below it, the address, pc, opcode,
\* gas triple, error code and stack, memory and touch-state payload it had.
C2_RoundTrip ==
    returned # NULL =>
        \A i \in 1..Len(cpu_instances) :
            /\ Returned[i].size = cpu_instances[i].size
            /\ Entries(heap, Returned[i]) = Entries(heap, cpu_instances[i])

Min(a, b) == IF a < b THEN a ELSE b
Max(a, b) == IF a > b THEN a ELSE b

\* C7: get_data(index, length) leaves available_size = min(length,
\* max(0, data.size - index)) and, when that is positive, returns the
\* pointer data.data + index.
C7_Available ==
    op.name = "get_data" =>
        /\ slice.result.available_size =
             Min(slice.length, Max(0, content.data.size - slice.index))
        /\ slice.result.available_size > 0 =>
             slice.result.ptr = [base |-> content.data.data,
                                 offset |-> slice.index]

\* a slice cut short by the end of the data
C7_Witness ==
    /\ op.name = "get_data"
    /\ slice.result.available_size > 0
    /\ slice.result.available_size < slice.length
    /\ slice.index > 0

Overflows == slice.index + slice.length >= 2 ^ AddrBits

\* C8 as stated: whenever index + length overflows size_t, get_data leaves
\* available_size = 0, also when index < data.size.
C8_OverflowEmpty ==
    (op.name = "get_data" /\ Overflows) => slice.result.available_size = 0

\* C8 as the code has it: when index + length overflows size_t, get_data
\* leaves available_size = data.size - index if index < data.size, and 0
\* otherwise.
C8_OverflowRemaining ==
    (op.name = "get_data" /\ Overflows) =>
        slice.result.available_size =
            IF slice.index < content.data.size
            THEN content.data.size - slice.index
            ELSE 0

\* an overflowing request that starts inside the data
C8_Witness ==
    /\ op.name = "get_data"
    /\ Overflows
    /\ slice.index < content.data.size
    /\ slice.result.available_size > 0

\* C9: the expansion holds |data| * |gasLimit| * |value| messages, and the
\* message at index (i * G + j) * V + k carries data[i], gasLimit[j] and
\* value[k].
C9_Expansion ==
    op.name = "get_messages" =>
        LET D == Len(transaction.data)
            G == Len(transaction.gasLimit)
            V == Len(transaction.value)
        IN  /\ messages.count = D * G * V
            /\ DOMAIN messages.cpu_messages = 0..(D * G * V - 1)
            /\ \A i \in 0..(D - 1), j \in 0..(G - 1), k \in 0..(V - 1) :
                 LET m == messages.cpu_messages[(i * G + j) * V + k]
                     a == adjusted_length(transaction.data[i + 1])
                 IN  /\ m.data.size = a.size
                     /\ DataValue(heap, m.data) =
                          [n \in 1..a.size |->
                              hex_to_bytes(a.str, 2 * a.size)[n - 1]]
                     /\ m.gas = HexWord(transaction.gasLimit[j + 1])
                     /\ m.value = HexWord(transaction.value[k + 1])

\* an expansion of two data entries, two gas limits and two values, each
\* pair different
C9_Witness ==
    /\ op.name = "get_messages"
    /\ messages.count = 8
    /\ transaction.data[1] # transaction.data[2]
    /\ transaction.gasLimit[1] # transaction.gasLimit[2]
    /\ transaction.value[1] # transaction.value[2]
    /\ messages.cpu_messages[2].gas # messages.cpu_messages[1].gas

\* C10: every message has tx.origin = caller = the sender of the fixture,
\* depth 0, and call_type OP_CREATE with to = 0 when the "to" of the fixture
\* is the empty string, OP_CALL otherwise; nonce, gasPrice, to and sender are
\* the same in all messages of the expansion.
C10_Header ==
    op.name = "get_messages" =>
        \A n \in DOMAIN messages.cpu_messages :
            LET m == messages.cpu_messages[n]
            IN  /\ m.tx.origin = HexWord(transaction.sender)
                /\ m.caller = m.tx.origin
                /\ m.depth = 0
                /\ IF transaction.to = << >>
                   THEN m.call_type = "OP_CREATE" /\ m.to = from_mpz(0)
                   ELSE m.call_type = "OP_CALL" /\ m.to = HexWord(transaction.to)
                /\ \A o \in DOMAIN messages.cpu_messages :
                     LET w == messages.cpu_messages[o]
                     IN  /\ w.nonce = m.nonce
                         /\ w.tx.gasprice = m.tx.gasprice
                         /\ w.to = m.to
                         /\ w.caller = m.caller

\* a contract creation expanded into several messages
C10_Witness ==
    /\ op.name = "get_messages"
    /\ messages.count >= 2
    /\ transaction.to = << >>
    /\ messages.cpu_messages[1].call_type = "OP_CREATE"

\* the descriptors the device holds after get_gpu_instances_from_cpu_instances
OnDevice == ReadDescriptors(heap, gpu_instances, Len(cpu_instances))

\* a descriptor with capacity = size whose ten arrays hold size elements
SizedToFit(h, d) ==
    /\ d.capacity = d.size
    /\ d.size > 0 =>
         \A j \in 1..Len(ArrayFields) :
             /\ IsLive(h, ArrayPointers(d)[j])
             /\ h[ArrayPointers(d)[j]].len = d.size

\* C11: after staging in either direction every staged instance has
\* capacity = size, also when the host capacity is larger, and its arrays
\* hold the first size entries only.
C11_CapacityIsSize ==
    /\ gpu_instances # NULL =>
         \A i \in 1..Len(cpu_instances) :
             /\ OnDevice[i].size = cpu_instances[i].size
             /\ SizedToFit(heap, OnDevice[i])
    /\ returned # NULL =>
         \A i \in 1..Len(cpu_instances) :
             /\ Returned[i].size = cpu_instances[i].size
             /\ SizedToFit(heap, Returned[i])

\* a batch staged out and back in which an instance holds one entry in a
\* page of PAGE_SIZE
C11_Witness ==
    /\ op.name = "from_gpu"
    /\ \E i \in 1..Len(cpu_instances) :
         /\ cpu_instances[i].size = 1
         /\ cpu_instances[i].capacity = PAGE_SIZE
         /\ Returned[i].capacity = 1

\* C12: when an allocation or copy of a staging call fails, no buffer the
\* call allocated is still live when the error surfaces.
C12_NoLeakOnFailure ==
    op.name = "to_gpu_failed" =>
        \A p \in op.first..Len(heap) : ~IsLive(heap, p)

\* what an instance holds: its descriptor and its ten arrays
InstanceState(h, c) ==
    [c |-> c,
     arrays |-> [j \in 1..Len(ArrayFields) |->
                    IF IsLive(h, ArrayPointers(c)[j])
                    THEN h[ArrayPointers(c)[j]] ELSE NULL]]

\* C13: a push whose grow fails to allocate leaves a mark on the instance
\* (its state differs from the state before the push) and keeps every entry
\* of the earlier pushes.
C13_FailedGrowMarked ==
    [][op'.name = "push_failed" =>
            /\ Entries(heap', Tracer') = Entries(heap, Tracer)
            /\ InstanceState(heap', Tracer') # InstanceState(heap, Tracer)]_vars

\* the arrays of instance i at the launch, source and destination
Footprint(i) ==
    {ArrayPointers(Cell(op.h0, gpu_instances, i, ZeroDescriptor))[j] :
        j \in 1..Len(ArrayFields)}
    \cup {ArrayPointers(Cell(op.h0, op.dst, i, ZeroDescriptor))[j] :
              j \in 1..Len(ArrayFields)}

\* what instance i holds in heap h: its two descriptors and its arrays
InstanceView(h, i) ==
    [src |-> Cell(h, gpu_instances, i, ZeroDescriptor),
     dst |-> Cell(h, op.dst, i, ZeroDescriptor),
     arrays |-> [p \in Footprint(i) \ {NULL} |-> h[p]]]

\* the heap outside the descriptors and arrays of instance i
Elsewhere(h, i) ==
    Then(Footprint(i),
         LAMBDA own :
             [p \in 1..Len(h) |->
                 IF p \in own THEN NULL
                 ELSE IF p \in {gpu_instances, op.dst}
                 THEN [k \in (0..(h[p].len - 1)) \ {i} |->
                          Cell(h, p, k, ZeroDescriptor)]
                 ELSE h[p]])

\* C14: a step of thread i of kernel_tracers changes nothing outside the
\* two descriptors and the arrays of instance i, a thread of index >= count
\* changes nothing at all, and once thread i has returned, instance i is as
\* thread i running alone from the launch leaves it, whatever the other
\* threads did in between.
AsAlone ==
    op.name = "kernel_tracers" =>
        \A i \in 0..(Len(cpu_instances) - 1) :
            op.pc[i + 1] = ThreadDone =>
                InstanceView(heap, i) =
                    InstanceView(kernel_thread(op.h0, op.dst,
                                               gpu_instances, i), i)

C14_ThreadIsolation ==
    [][/\ \A t \in 0..(KernelThreads - 1) :
            (/\ op.name = "kernel_tracers"
             /\ op'.name = "kernel_tracers"
             /\ op'.pc[t + 1] # op.pc[t + 1]) =>
                /\ Elsewhere(heap', t) = Elsewhere(heap, t)
                /\ t >= Len(cpu_instances) => heap' = heap
       /\ AsAlone']_vars

\* two threads in the middle of their copies and deletes, the thread past
\* count returned
C14_Witness ==
    /\ op.name = "kernel_tracers"
    /\ op.pc[1] = Len(ArrayFields) + 3
    /\ op.pc[2] = 4
    /\ op.pc[KernelThreads] = ThreadDone
    /\ IsLive(heap, Cell(heap, gpu_instances, 1, ZeroDescriptor).pcs)
    /\ Cell(heap, gpu_instances, 0, ZeroDescriptor).size > 0

\* what a push of a leaves in the trace
AfterPush(h, c, fr, a) ==
    Then(push(h, c, fr, a, "host"),
         LAMBDA r : [size |-> r.c.size, capacity |-> r.c.capacity,
                     entries |-> Entries(r.h, r.c)])

\* C15: a render leaves the descriptor of the trace and every block of the
\* heap as they were, a second render gives the same document, and a push
\* after the render leaves the trace a push without the render leaves.
C15_RenderPure ==
    [][op'.name = "json" =>
            /\ Tracer' = Tracer
            /\ SubSeq(heap', 1, Len(heap)) = heap
            /\ Entries(heap', Tracer') = Entries(heap, Tracer)
            /\ json_from_tracer_data_t(heap', Tracer').doc = op'.doc
            /\ \A a \in PushArgs :
                   AfterPush(heap', Tracer', frame', a)
                       = AfterPush(heap, Tracer, frame, a)]_vars

\* a render of a trace of two entries, one of them with a stack
C15_Witness ==
    /\ op.name = "json"
    /\ Tracer.size = 2
    /\ \E k \in 1..2 : Entry(heap, Tracer, k - 1).stack # << >>
    /\ Len(op.doc) = 2

JsonKeys ==
    <<"address", "pc", "opcode", "stack", "memory", "touch_state",
      "gas_used", "gas_limit", "gas_refund", "error_code">>

\* C16: the document is an array of size objects, object k is that of entry
\* k and has the ten keys and no other, pc, opcode and error_code are
\* numbers holding the entry's values, gas_used, gas_limit and gas_refund
\* are strings.
C16_Document ==
    op.name = "json" =>
        /\ Len(op.doc) = Tracer.size
        /\ \A k \in 1..Tracer.size :
             LET item == op.doc[k]
                 e == Entry(heap, Tracer, k - 1)
             IN  /\ [j \in 1..Len(item) |-> item[j].key] = JsonKeys
                 /\ \A j \in {2, 3, 10} :
                        /\ item[j].type = "number"
                        /\ item[j].value = e[JsonKeys[j]]
                 /\ \A j \in {7, 8, 9} :
                        /\ item[j].type = "string"
                        /\ item[j].value =
                             hex_string_from_cgbn_memory(e[JsonKeys[j]], Limbs)
                 /\ item[4].value = json_from_stack_data_t(e.stack)

\* a document of two objects with different pc, error_code and gas_used
C16_Witness ==
    /\ op.name = "json"
    /\ Len(op.doc) = 2
    /\ op.doc[1][2].value # op.doc[2][2].value
    /\ op.doc[1][10].value # op.doc[2][10].value
    /\ op.doc[1][7].value # op.doc[2][7].value

\* bits [lo, hi) of the word a
BitsOf(a, lo, hi) == (a % (2 ^ hi)) \div (2 ^ lo)

\* the number a buffer of n bytes spells, its first byte the most significant
RECURSIVE BigEndian(_, _, _)
BigEndian(h, dst, n) ==
    IF n = 0 THEN 0
    ELSE 256 * BigEndian(h, dst, n - 1) + Cell(h, dst, n - 1, Indeterminate)

\* C17: after from_cgbn_to_memory(dst, a), dst[idx] holds bits
\* [BITS - 8 (idx + 1), BITS - 8 idx) of a for every idx below BITS / 8, so
\* the buffer read with its first byte as the most significant spells a.
C17_BigEndian ==
    op.name = "from_cgbn_to_memory" =>
        /\ \A idx \in 0..(BITS \div 8 - 1) :
               Cell(heap, op.dst, idx, Indeterminate)
                   = BitsOf(op.a, BITS - 8 * (idx + 1), BITS - 8 * idx)
        /\ BigEndian(heap, op.dst, BITS \div 8) = op.a

\* a word whose most and least significant bytes differ
C17_Witness ==
    /\ op.name = "from_cgbn_to_memory"
    /\ Cell(heap, op.dst, 0, Indeterminate) = 1
    /\ Cell(heap, op.dst, BITS \div 8 - 1, Indeterminate) = 128

\* C18: every message of get_messages and the message of the constructor
\* from a fixture have depth 0, which is within the limit of 1024.
C18_DepthZero ==
    /\ op.name = "get_messages" =>
           \A n \in DOMAIN messages.cpu_messages :
               messages.cpu_messages[n].depth = 0
    /\ op.name = "message_t" =>
           content.depth = 0 /\ content.depth <= 1024

\* C19: on a trace with an entry, a modify_last_stack that follows another
\* with no push in between is rejected: it writes nothing, neither to the
\* trace nor to the heap.
C19_SecondPatchRejected ==
    [][(/\ op.name = "modify_last_stack"
        /\ op'.name = "modify_last_stack"
        /\ Tracer.size >= 1) =>
            /\ heap' = heap
            /\ cpu_instances' = cpu_instances]_vars

\* C20: after get_gpu_instances_from_cpu_instances, every instance with
\* entries has, at every index below its size, the same address, pc, opcode,
\* gas triple and error code in its device arrays as in its host arrays.
C20_BulkFieldsStaged ==
    op.name = "to_gpu" =>
        \A i \in 1..Len(cpu_instances) :
            \A k \in 0..(cpu_instances[i].size - 1) :
                \A f \in {"pcs", "opcodes", "gas_useds", "gas_limits",
                           "gas_refunds", "error_codes", "addresses"} :
                    Cell(heap, OnDevice[i][f], k, Indeterminate)
                        = Cell(heap, cpu_instances[i][f], k, Indeterminate)

\* the array pointers of the descriptors the outer array p holds
OuterPointers(h, p) ==
    {ArrayPointers(Cell(h, p, i - 1, ZeroDescriptor))[j] :
        i \in 1..Len(cpu_instances), j \in 1..Len(ArrayFields)}

\* C21: during get_gpu_instances_from_cpu_instances the outer device array
\* is left as allocated until every instance has been staged; the one step
\* that writes it comes after the loop, and every array pointer it then
\* holds is NULL or a live device block allocated by the call, none of them
\* a pointer of the host descriptors.
C21_OuterWrittenLast ==
    [][op.name = "to_gpu_loop" =>
          /\ op'.name = "to_gpu_loop" => heap'[op.gpu] = heap[op.gpu]
          /\ heap'[op.gpu] # heap[op.gpu] =>
                /\ op.idx > Len(cpu_instances)
                /\ op'.name = "to_gpu"
          /\ op'.name = "to_gpu" =>
                /\ heap' = get_gpu_instances_from_cpu_instances(
                               op.h0, cpu_instances, op.g).h
                /\ \A p \in OuterPointers(heap', op.gpu) \ {NULL} :
                       /\ p > Len(op.h0)
                       /\ IsLive(heap', p)
                       /\ heap'[p].space = "device"
                       /\ \A i \in 1..Len(cpu_instances) :
                              \A j \in 1..Len(ArrayFields) :
                                  p # ArrayPointers(cpu_instances[i])[j]]_vars

\* an outer array written after two instances with entries were staged
C21_Witness ==
    /\ op.name = "to_gpu"
    /\ gpu_instances # NULL
    /\ \A i \in 1..Len(cpu_instances) :
           /\ cpu_instances[i].size > 0
           /\ Cell(heap, gpu_instances, i - 1, ZeroDescriptor).pcs # NULL

\* C22: every descriptor get_cpu_instances_from_gpu_instances returns has the
\* size of the device descriptor it was staged from and, for size > 0, ten
\* array pointers to live host blocks allocated by the call.
C22_ReturnedOnHost ==
    [][op'.name = "from_gpu" =>
          \A i \in 1..Len(cpu_instances) :
              /\ Returned'[i].size
                    = Cell(heap, gpu_instances, i - 1, ZeroDescriptor).size
              /\ Returned'[i].size > 0 =>
                    \A j \in 1..Len(ArrayFields) :
                        /\ ArrayPointers(Returned'[i])[j] > Len(heap)
                        /\ IsLive(heap', ArrayPointers(Returned'[i])[j])
                        /\ heap'[ArrayPointers(Returned'[i])[j]].space
                              = "host"]_vars

\* a batch returned with entries in one instance and none in the other
C22_Witness ==
    /\ op.name = "from_gpu"
    /\ Returned[1].size = 1
    /\ Returned[2].size = 0
    /\ heap[Returned[1].stacks].space = "host"

\* C23: when get_cpu_instances_from_gpu_instances returns, every device
\* allocation it was given (the outer array and the arrays of each instance)
\* and every device allocation it made has been freed exactly once.
C23_DeviceFreedOnce ==
    [][op'.name = "from_gpu" =>
          /\ heap'[gpu_instances].frees = 1
          /\ \A i \in 1..Len(cpu_instances) :
                 \A j \in 1..Len(ArrayFields) :
                     LET p == ArrayPointers(
                                  Cell(heap, gpu_instances, i - 1,
                                       ZeroDescriptor))[j]
                     IN  p # NULL => heap'[p].frees = 1
          /\ \A p \in (Len(heap) + 1)..Len(heap') :
                 heap'[p].space = "device" => heap'[p].frees = 1]_vars

\* the blocks the next step of thread t of the kernel reads or writes
ThreadAccess(t) ==
    LET instance == thread_instance(t)
        pc == op.pc[t + 1]
        n == Len(ArrayFields)
        src == Cell(heap, gpu_instances, instance, ZeroDescriptor)
        dst == Cell(heap, op.dst, instance, ZeroDescriptor)
    IN  IF instance >= Len(cpu_instances) THEN {}
        ELSE IF pc \in 1..n
             THEN {gpu_instances, op.dst, src[ArrayFields[pc]],
                   dst[ArrayFields[pc]]}
        ELSE IF pc \in (n + 1)..(2 * n)
             THEN {gpu_instances, src[ArrayFields[pc - n]]}
        ELSE {gpu_instances}

\* C24: in get_cpu_instances_from_gpu_instances no device buffer is used
\* after it is freed: every step of a kernel thread finds the blocks it reads
\* or writes live, the source outer array is freed and the copy out starts
\* only when every thread of the kernel has returned, each staging buffer is
\* live until its turn of the copy loop and freed there with its contents in
\* the host array, and the temporary outer array is freed last.
C24_NoUseAfterFree ==
    [][/\ \A t \in 0..(KernelThreads - 1) :
            (/\ op.name = "kernel_tracers"
             /\ op'.name = "kernel_tracers"
             /\ op'.pc[t + 1] # op.pc[t + 1]) =>
                \A p \in ThreadAccess(t) : IsLive(heap, p)
       /\ (\/ op.name = "kernel_tracers" /\ op'.name = "from_gpu_loop"
           \/ /\ gpu_instances # NULL
              /\ heap'[gpu_instances].frees > heap[gpu_instances].frees) =>
              /\ op.name = "kernel_tracers"
              /\ \A t \in 1..KernelThreads : op.pc[t] = ThreadDone
              /\ IsLive(heap, gpu_instances)
       /\ (op.name = "from_gpu_loop" /\ op'.name = "from_gpu_loop") =>
              LET d == Cell(heap, op.cpu, op.idx - 1, ZeroDescriptor)
                  c == Cell(heap', op.tmp, op.idx - 1, ZeroDescriptor)
              IN  d.size > 0 =>
                    \A j \in 1..Len(ArrayFields) :
                        LET f == ArrayFields[j]
                        IN  /\ IsLive(heap, d[f])
                            /\ heap[d[f]].space = "device"
                            /\ heap'[d[f]].frees = 1
                            /\ f \notin SnapshotFields =>
                                  \A k \in 0..(d.size - 1) :
                                      Cell(heap', c[f], k, Indeterminate)
                                        = Cell(heap, d[f], k, Indeterminate)
       /\ (op.name = "from_gpu_loop" /\ op'.name = "from_gpu") =>
              /\ IsLive(heap, op.dst)
              /\ heap'[op.dst].frees = 1]_vars

\* the copy loop past a first instance with entries, the source outer array
\* freed
C24_Witness ==
    /\ op.name = "from_gpu_loop"
    /\ op.idx = 2
    /\ Cell(heap, op.tmp, 0, ZeroDescriptor).size > 0
    /\ heap[gpu_instances].frees = 1

\* C25: after every grow, alone or inside a push, every entry at an index in
\* [size, capacity) has an empty snapshot: a stack of base NULL and offset 0,
\* a memory of size 0, allocated size 0 and data NULL, a touch state of 0
\* accounts and NULL pointers.
C25_TailEmpty ==
    [][(\/ op'.name = "grow"
        \/ op'.name = "push" /\ Tracer.size = Tracer.capacity) =>
          \A k \in Tracer'.size..(Tracer'.capacity - 1) :
              /\ HasCell(heap', Tracer'.stacks, k)
              /\ Cell(heap', Tracer'.stacks, k, EmptyStack) = EmptyStack
              /\ HasCell(heap', Tracer'.memories, k)
              /\ Cell(heap', Tracer'.memories, k, EmptyMemory) = EmptyMemory
              /\ HasCell(heap', Tracer'.touch_states, k)
              /\ Cell(heap', Tracer'.touch_states, k, EmptyTouch)
                    = EmptyTouch]_vars

\* a grow of a trace that holds entries with a stack, and a tail behind them
C25_Witness ==
    /\ op.name = "grow"
    /\ Tracer.size >= PAGE_SIZE
    /\ Tracer.capacity >= Tracer.size + PAGE_SIZE
    /\ Entry(heap, Tracer, PAGE_SIZE - 1).stack # << >>

\* the grows a trace has gone through: each one allocated its ten arrays
GrowCount ==
    Cardinality({p \in (Len(InitHeap) + 1)..Len(heap) :
                    heap[p].len >= PAGE_SIZE}) \div Len(ArrayFields)

\* C26: a trace from get_cpu_instances starts with size 0, capacity 0 and
\* every pointer NULL; after n pushes its size is n and its capacity is
\* 128 * ceil(n / 128); 300 pushes make exactly 3 grows and a capacity of 384.
C26_PagedCapacity ==
    /\ op.name = "init" =>
          /\ Tracer.size = 0 /\ Tracer.capacity = 0
          /\ \A j \in 1..Len(ArrayFields) : ArrayPointers(Tracer)[j] = NULL
    /\ Tracer.size = Len(log[1])
    /\ Tracer.capacity
          = 128 * ((Len(log[1]) + 127) \div 128)
    /\ GrowCount = Tracer.capacity \div 128
    /\ Len(log[1]) = 300 => Tracer.capacity = 384 /\ GrowCount = 3

\* the trace after its 300th push
C26_Witness ==
    /\ op.name = "push"
    /\ Len(log[1]) = 300
    /\ Tracer.size = 300

\* size and capacity of every descriptor of the batch: on the host, staged
\* on the device, and staged back
SizeWithinCapacity ==
    /\ \A i \in 1..Len(cpu_instances) :
           /\ 0 <= cpu_instances[i].size
           /\ cpu_instances[i].size <= cpu_instances[i].capacity
    /\ IsLive(heap, gpu_instances) =>
           \A i \in 1..Len(cpu_instances) :
               /\ 0 <= OnDevice[i].size
               /\ OnDevice[i].size <= OnDevice[i].capacity
    /\ IsLive(heap, returned) =>
           \A i \in 1..Len(cpu_instances) :
               /\ 0 <= Returned[i].size
               /\ Returned[i].size <= Returned[i].capacity

\* C27: in every state reached by push, grow, modify_last_stack, staging to
\* the device, staging back and free_cpu_instances, every instance has
\* 0 <= size <= capacity, and the index a push writes is below the capacity
\* and inside each of the ten arrays.
C27_SizeWithinCapacity ==
    [][/\ SizeWithinCapacity
       /\ SizeWithinCapacity'
       /\ \A i \in 1..Len(cpu_instances) :
              cpu_instances'[i].size = cpu_instances[i].size + 1 =>
                  /\ cpu_instances[i].size < cpu_instances'[i].capacity
                  /\ \A j \in 1..Len(ArrayFields) :
                         InBounds(heap', ArrayPointers(cpu_instances'[i])[j],
                                  cpu_instances[i].size)]_vars

\* a batch that was grown, staged, staged back and released
C27_Witness ==
    /\ op.name = "free_cpu_instances"
    /\ returned # NULL
    /\ cpu_instances[1].capacity = 2 * PAGE_SIZE
    /\ cpu_instances[1].size = 1
    /\ cpu_instances[2].size = 1

\* C28: modify_last_stack writes the stack snapshot of an index in
\* [0, size) and no other; on a trace of size 0 it writes nothing (the index
\* size - 1 does not wrap around).
C28_PatchInRange ==
    [][op'.name = "modify_last_stack" =>
          /\ wild' = wild
          /\ Tracer.size > 0 => last_index(Tracer) \in 0..(Tracer.size - 1)
          /\ Tracer.size = 0 => heap' = heap]_vars

\* the places of the tracer c that hold the pointer b: entry, snapshot array
\* and pointer field
References(h, c, b) ==
    {x \in (0..(c.capacity - 1)) \X {<<"stacks", "stack_base">>,
                                     <<"memories", "data">>,
                                     <<"touch_states", "accounts">>,
                                     <<"touch_states", "touch">>} :
        /\ HasCell(h, c[x[2][1]], x[1])
        /\ Cell(h, c[x[2][1]], x[1], EmptySnapshot(x[2][1]))[x[2][2]] = b}

\* the snapshot buffers the entries of the tracer c point to
SnapshotBuffers(h, c) ==
    UNION {{Cell(h, c[f], k, EmptySnapshot(f))[PayloadPointers(f)[j]] :
               j \in 1..Len(PayloadPointers(f)), k \in 0..(c.capacity - 1)} :
           f \in SnapshotFields} \ {NULL}

\* C29: a grow, alone or inside a push, releases each of the ten old arrays
\* exactly once, and only when the old capacity is above 0; it frees no other
\* block, so none of the snapshot buffers the copied entries point to; after
\* it every such buffer is referenced by exactly one entry of the new arrays.
C29_GrowReleasesArrays ==
    [][(\/ op'.name = "grow"
        \/ op'.name = "push" /\ Tracer.size = Tracer.capacity) =>
          LET old == IF Tracer.capacity > 0
                     THEN {ArrayPointers(Tracer)[j] : j \in 1..Len(ArrayFields)}
                     ELSE {}
          IN  /\ Tracer.capacity > 0 => Cardinality(old) = Len(ArrayFields)
              /\ \A p \in 1..Len(heap) :
                     heap'[p].frees = heap[p].frees + (IF p \in old THEN 1 ELSE 0)
              /\ \A p \in old : heap[p].frees = 0
              /\ \A b \in SnapshotBuffers(heap, Tracer) :
                     /\ IsLive(heap', b)
                     /\ Cardinality(References(heap', Tracer', b)) = 1]_vars

\* a grow that released ten arrays under entries with snapshot buffers
C29_Witness ==
    /\ op.name \in {"grow", "push"}
    /\ Tracer.capacity = 2 * PAGE_SIZE
    /\ Tracer.size >= PAGE_SIZE
    /\ Cardinality(SnapshotBuffers(heap, Tracer)) >= 2
    /\ \E p \in 1..Len(heap) : heap[p].frees = 1 /\ heap[p].len = PAGE_SIZE

C31_SliceInside ==
    op.name = "get_data" =>
        LET p == slice.result.ptr.offset
        IN  /\ slice.result.ptr.base = content.data.data
            /\ p = (IF slice.index < content.data.size THEN slice.index ELSE 0)
            /\ p >= 0
            /\ slice.result.available_size >= 0
            /\ p + slice.result.available_size <= content.data.size

\* an overflowing request whose slice ends with the data
C31_Witness ==
    /\ op.name = "get_data"
    /\ slice.index + slice.length >= 2 ^ AddrBits
    /\ slice.index > 0
    /\ slice.result.ptr.offset = slice.index
    /\ slice.index + slice.result.available_size = content.data.size
    /\ slice.result.available_size < slice.length

\* C32: from_memory_to_cgbn followed by from_cgbn_to_memory gives back the
\* buffer, from_cgbn_to_memory followed by from_memory_to_cgbn gives back the
\* word, and the word from_memory_to_cgbn leaves is the number its buffer
\* spells, whatever the word held before.
C32_RoundTrip ==
    [][/\ op'.name = "from_memory_to_cgbn" =>
            /\ op'.a = BigEndian(heap, op.src, BITS \div 8)
            /\ op.name = "from_cgbn_to_memory" => op'.a = op.a
       /\ (op.name = "from_memory_to_cgbn" /\ op'.name = "from_cgbn_to_memory")
            => \A k \in 0..(BITS \div 8 - 1) :
                   Cell(heap', 2, k, Indeterminate)
                     = Cell(heap, 1, k, Indeterminate)]_vars

\* a word with its high bit set written to memory and read back, next to a
\* buffer of other bytes
C32_Witness ==
    /\ op.calls = 2
    /\ op.a >= 2 ^ (BITS - 1)
    /\ Cell(heap, 1, 0, Indeterminate) = 1
    /\ Cell(heap, 2, 1, Indeterminate) >= 128

\* the data pointers of the messages with data
DataPointers ==
    {messages.cpu_messages[n].data.data :
        n \in {k \in 0..(messages.count - 1) :
                  messages.cpu_messages[k].data.size > 0}}

\* C33: every message get_messages returns with data.size > 0 has a live
\* data buffer of that size that no other message points to (so none is the
\* buffer of a data entry, which the loader has freed), every message with
\* data.size = 0 has a NULL data pointer, and free_messages frees each of
\* these buffers exactly once.
C33_OwnData ==
    [][/\ op'.name = "get_messages" =>
            \A n \in 0..(messages'.count - 1) :
                LET m == messages'.cpu_messages[n]
                IN  /\ m.data.size = 0 => m.data.data = NULL
                    /\ m.data.size > 0 =>
                          /\ IsLive(heap', m.data.data)
                          /\ heap'[m.data.data].len = m.data.size
                          /\ \A k \in 0..(messages'.count - 1) :
                                 messages'.cpu_messages[k].data.data
                                     = m.data.data => k = n
       /\ op'.name = "free_messages" =>
            \A p \in 1..Len(heap) :
                heap'[p].frees = heap[p].frees
                                   + (IF p \in DataPointers THEN 1 ELSE 0)
       /\ op'.name = "free_messages" =>
            \A p \in DataPointers : heap'[p].frees = 1]_vars

\* an expansion of four messages with data, released
C33_Witness ==
    /\ op.name = "free_messages"
    /\ messages.count = 4
    /\ Cardinality(DataPointers) = 4

\* message n of the array staged at gpu, read in the heap h
Staged(h, gpu, n) == Cell(h, gpu, n, MessageOf(0))

\* C34: get_gpu_messages stages every message with the scalar fields of the
\* host message, a device buffer of its own holding the same data.size bytes
\* when data.size > 0 and a NULL data pointer when data.size = 0;
\* free_gpu_messages frees each device data buffer and the outer array
\* exactly once, and nothing of the host.
C34_MessagesStaged ==
    [][/\ op'.name = "get_gpu_messages" =>
            /\ IsLive(heap', op'.gpu)
            /\ heap'[op'.gpu].space = "device"
            /\ \A n \in 0..(messages.count - 1) :
                   LET m == messages.cpu_messages[n]
                       d == Staged(heap', op'.gpu, n)
                   IN  /\ HasCell(heap', op'.gpu, n)
                       /\ [d EXCEPT !.data.data = NULL]
                            = [m EXCEPT !.data.data = NULL]
                       /\ m.data.size = 0 => d.data.data = NULL
                       /\ m.data.size > 0 =>
                             /\ d.data.data > Len(heap)
                             /\ IsLive(heap', d.data.data)
                             /\ heap'[d.data.data].space = "device"
                             /\ DataValue(heap', d.data)
                                  = DataValue(heap, m.data)
       /\ op'.name = "free_gpu_messages" =>
            /\ heap'[op.gpu].frees = 1
            /\ \A n \in 0..(messages.count - 1) :
                   Staged(heap, op.gpu, n).data.size > 0 =>
                       /\ IsLive(heap, Staged(heap, op.gpu, n).data.data)
                       /\ heap'[Staged(heap, op.gpu, n).data.data].frees = 1
            /\ \A p \in 1..Len(heap') :
                   /\ heap'[p].space = "device" => heap'[p].frees = 1
                   /\ p \in DataPointers => heap'[p] = heap[p]]_vars

\* four messages with data staged on the device and released there
C34_Witness ==
    /\ op.name = "free_gpu_messages"
    /\ messages.count = 4
    /\ Cardinality(DataPointers) = 4
    /\ \A p \in DataPointers : IsLive(heap, p)
    /\ Cardinality({p \in 1..Len(heap) : heap[p].space = "device"}) = 5

\* the descriptors insts with every empty instance emptied of its capacity
\* and pointers too
Emptied(insts) ==
    [i \in 1..Len(insts) |->
        IF insts[i].size = 0 THEN ZeroDescriptor ELSE insts[i]]

\* C35: an instance with size 0 is staged as the empty descriptor (size 0,
\* capacity 0, ten NULL pointers) in both directions, whatever capacity and
\* pointers its source descriptor has, and nothing is allocated or copied
\* for it: the call leaves the heap it leaves when the source descriptor is
\* the empty one, and for a batch of empty instances it allocates the outer
\* arrays and shadows only.
C35_EmptyStaged ==
    [][/\ op'.name = "to_gpu" =>
            /\ \A i \in 1..Len(cpu_instances) :
                   cpu_instances[i].size = 0 =>
                       Cell(heap', gpu_instances', i - 1, cpu_instances[i])
                           = ZeroDescriptor
            /\ \E g \in Garbage :
                   heap' = get_gpu_instances_from_cpu_instances(
                               heap, Emptied(cpu_instances), g).h
            /\ (\A i \in 1..Len(cpu_instances) : cpu_instances[i].size = 0)
                   => Len(heap') = Len(heap) + 2
       /\ op'.name = "from_gpu" =>
            /\ \A i \in 1..Len(cpu_instances) :
                   OnDevice[i].size = 0 =>
                       Cell(heap', returned', i - 1, OnDevice[i])
                           = ZeroDescriptor
            /\ \E g \in Garbage :
                   heap' = get_cpu_instances_from_gpu_instances(
                               [heap EXCEPT ![gpu_instances].cells =
                                    Descriptors(Emptied(OnDevice))],
                               gpu_instances, Len(cpu_instances), g).h
            /\ (\A i \in 1..Len(cpu_instances) : OnDevice[i].size = 0)
                   => Len(heap') = Len(heap) + 4]_vars

\* a batch staged back whose first instance was empty with arrays on the
\* host when it was staged, and whose second was grown on the device
C35_Witness ==
    /\ op.name = "from_gpu"
    /\ cpu_instances[1].size = 0
    /\ cpu_instances[1].capacity = PAGE_SIZE
    /\ cpu_instances[2].size = 0
    /\ \E p \in 1..Len(heap) :
           /\ IsLive(heap, p)
           /\ heap[p].space = "device"
           /\ heap[p].len = PAGE_SIZE

\* lines 70-81 and the getters of message_t: what the getters read of a
\* message
Getters(h, m) ==
    [caller |-> m.caller, value |-> m.value, to |-> m.to, nonce |-> m.nonce,
     origin |-> m.tx.origin, gasprice |-> m.tx.gasprice, gas |-> m.gas,
     depth |-> m.depth, call_type |-> m.call_type, storage |-> m.storage,
     data_size |-> m.data.size, data |-> DataValue(h, m.data)]

\* C36: two runs of get_messages on the same fixture give the same count
\* and, message by message, the same value of every field a getter reads:
\* caller, value, to, nonce, tx.origin, tx.gasprice, gas, depth, call_type,
\* storage, the data size and the data bytes.
C36_Deterministic ==
    op.name = "get_messages_again" =>
        /\ op.count = messages.count
        /\ \A idx \in 0..(messages.count - 1) :
               Getters(heap, op.cpu_messages[idx])
                   = Getters(heap, messages.cpu_messages[idx])

\* C37: the constructor from a fixture yields a message equal to instance 0
\* of the expansion, whose data is a copy of its own that is still allocated
\* once the expansion is freed, and it reads only messages of the expansion:
\* for count = 0 it reads none.
C37_FirstMessage ==
    op.name = "message_t" =>
        LET r == get_messages(<< >>, transaction)
        IN  /\ op.read \subseteq 0..(r.count - 1)
            /\ r.count > 0 =>
                  /\ Getters(heap, content) = Getters(r.h, r.cpu_messages[0])
                  /\ content.data.size > 0 =>
                        /\ IsLive(heap, content.data.data)
                        /\ \A idx \in 0..(r.count - 1) :
                              /\ r.cpu_messages[idx].data.data
                                     # content.data.data
                              /\ ~IsLive(heap, r.cpu_messages[idx].data.data)

====
